---- MODULE Spec2Model ----
(***************************************************************************)
(* Marching heat-exchanger solver: zones.py (PipeFlowZone, TubeBankZone,   *)
(* PlateFinZone), assembly.py (HeatExchanger) and fluids.py (FluidState,   *)
(* FluidStream).                                                           *)
(*                                                                         *)
(* Numbers.  The program computes in floating point; the model computes    *)
(* in integers.  Lengths, temperatures, pressures, mass flows and          *)
(* conductances are whole multiples of a resolution unit, and a float      *)
(* division is the quotient truncated toward zero (Quot).  R_p and         *)
(* n_rows_avg are multiples of 1/2 in every modelled configuration and are *)
(* held doubled (R_p2, n_rows_avg2).                                       *)
(*                                                                         *)
(* External collaborators.  CoolProp's PropsSI is modelled by its range    *)
(* check (PropsSI_ok) and a per-fluid specific heat (PropsSI_C).  The      *)
(* values that the injected Heat-Transfer Model and the correlation        *)
(* library derive from CoolProp's transport properties (film coefficients, *)
(* dynamic head, friction term, Euler power law) are inputs carried by the *)
(* zone in its phys record; everything the solve computes from them (the   *)
(* resistance network, the energy and momentum update, the aggregation) is *)
(* computed as the code computes it.                                       *)
(***************************************************************************)
EXTENDS Integers, Sequences, FiniteSets, TLC

VARIABLES
    zones,          \* HeatExchanger.zones: the ordered zone objects
    hot_inlet,      \* hot_stream.inlet
    cold_inlet,     \* cold_stream.inlet
    hot_profile,    \* hot_stream.profile
    cold_profile,   \* cold_stream.profile
    hot_out,        \* HeatExchanger.hot_out
    cold_out,       \* HeatExchanger.cold_out
    outcome,        \* how the last solve() ended: "none", "returned" or the exception raised
    calls,          \* log of the zone.solve invocations of the last solve(), in call order
    n_solves,       \* number of solve() calls made so far
    rows_before,    \* entries hot_stream.profile held when the last solve() began
    geom_before,    \* while build_geometry() is the last call made: each zone's layout as
                    \* it stood when that call began (empty after any other call)
    target_T_out,   \* HeatExchanger.target_T_out: <<>> for None, else <<T>>
    Q_required,     \* HeatExchanger.Q_required: <<>> for None, else <<Q>>
    call,           \* the last call made on a model plug-in: its arguments and its result
    builder         \* the HXBuilder: its zone list and how its last call ended

vars == <<zones, hot_inlet, cold_inlet, hot_profile, cold_profile,
          hot_out, cold_out, outcome, calls, n_solves, rows_before, geom_before,
          target_T_out, Q_required, call, builder>>

(***************************************************************************)
(* Bounds of the model.                                                    *)
(***************************************************************************)
MaxZones == 2
MaxSolves == 2

(***************************************************************************)
(* fluids.py                                                               *)
(***************************************************************************)
\* FluidState.__init__: the fluid string is the fluid input itself (case A).
FluidState(name, T, P, m_dot, fluid, x) ==
    [name |-> name, T |-> T, P |-> P, m_dot |-> m_dot, fluid |-> fluid, x |-> x]

\* FluidState.copy
Copy(s) == FluidState(s.name, s.T, s.P, s.m_dot, s.fluid, s.x)

\* Placeholder where a call raised and returned no state.
NoState == FluidState("none", 0, 0, 0, "none", 0)

\* Upper end of the temperature range in which the property provider answers.
T_range_max == 5000

\* cp.PropsSI(..., 'T', T, 'P', P, fluid): answers inside the fluid's range,
\* raises ValueError outside it (non-positive pressure or temperature, or a
\* temperature beyond the range).
PropsSI_ok(T, P, fluid) == T > 0 /\ T <= T_range_max /\ P > 0

\* cp.PropsSI('C', ...): specific heat of the fluid.
PropsSI_C(fluid) == IF fluid = "Water" THEN 4 ELSE 1

\* Float division a / b for b > 0: truncated toward zero at the resolution.
Quot(a, b) == IF a >= 0 THEN a \div b ELSE -((-a) \div b)

\* cp.PropsSI('H', 'T', T, 'P', P, fluid): enthalpy of a fluid of constant
\* specific heat, or the ValueError of a lookup outside the range.
PropsSI_H(T, P, fluid) ==
    IF PropsSI_ok(T, P, fluid) THEN [exc |-> "none", H |-> PropsSI_C(fluid) * T]
    ELSE [exc |-> "ValueError", H |-> 0]

\* FluidState.h
FluidState_h(s) == PropsSI_H(s.T, s.P, s.fluid)

(***************************************************************************)
(* assembly.py: the duty target                                            *)
(***************************************************************************)
\* The same assignment reading the state the gas currently leaves with.
set_target_from_outlet(hx, T_target) ==
    LET s == hx.hot_out
        h_in == FluidState_h(s)
        h_out_req == PropsSI_H(T_target, s.P, s.fluid)
    IN  [target_T_out |-> T_target,
         Q_required |-> IF h_in.exc # "none" \/ h_out_req.exc # "none" THEN 0
                        ELSE s.m_dot * (h_in.H - h_out_req.H)]

\* HeatExchanger.set_target_outlet_temp: what it assigns to target_T_out and
\* Q_required.  hx carries the attributes of the exchanger the method reads.
set_target_outlet_temp(hx, T_target) ==
    LET inlet == hx.hot_stream_inlet
        h_in == FluidState_h(inlet)
        h_out_req == PropsSI_H(T_target, inlet.P, inlet.fluid)
    IN  [target_T_out |-> T_target,
         Q_required |-> IF h_in.exc # "none" \/ h_out_req.exc # "none" THEN 0
                        ELSE inlet.m_dot * (h_in.H - h_out_req.H)]

(***************************************************************************)
(* zones.py: construction and geometry                                     *)
(***************************************************************************)
\* BaseZone.__init__: results = {}
NoResults ==
    [set |-> FALSE, Q_total |-> 0, dP_gas |-> 0, dP_cool |-> 0,
     h_gas_avg |-> 0, h_cool_avg |-> 0, Re_gas_avg |-> 0, Re_cool_avg |-> 0,
     T_gas_out |-> 0, T_cool_out |-> 0, rows |-> 0]

\* TubeBankZone.__init__: eps_por = 1 - (pi/4) * tube_dia**2 / (S_T * S_L), in
\* thousandths.
eps_por(tube_dia, S_T, S_L) == 1000 - Quot(785 * tube_dia * tube_dia, S_T * S_L)

\* PipeFlowZone.__init__: one column whose pitch is the pipe length.
\* phys.f_LD is f*(length/diameter), phys.q_dyn is 0.5*rho*u^2.
PipeFlowZone(name, length, phys) ==
    [kind |-> "pipe", name |-> name, length |-> length,
     height |-> 0, tube_dia |-> 0, R_p2 |-> 0, n_cols |-> 1,
     origin_x |-> 0, origin_y |-> 0, stagger |-> FALSE,
     S_T |-> 0, S_L |-> length, eps_por |-> 0,
     tube_centers |-> <<>>, n_tubes |-> 0, n_rows_avg2 |-> 0,
     results |-> NoResults, phys |-> phys]

\* TubeBankZone.__init__: S_T = S_L = R_p * tube_dia, and eps_por from these
\* two pitches.
TubeBankZone(name, height, tube_dia, R_p2, n_cols, origin_x, stagger, phys) ==
    [kind |-> "bare", name |-> name, length |-> 0,
     height |-> height, tube_dia |-> tube_dia, R_p2 |-> R_p2, n_cols |-> n_cols,
     origin_x |-> origin_x, origin_y |-> 0, stagger |-> stagger,
     S_T |-> (R_p2 * tube_dia) \div 2, S_L |-> (R_p2 * tube_dia) \div 2,
     eps_por |-> eps_por(tube_dia, (R_p2 * tube_dia) \div 2, (R_p2 * tube_dia) \div 2),
     tube_centers |-> <<>>, n_tubes |-> 0, n_rows_avg2 |-> 0,
     results |-> NoResults, phys |-> phys]

\* PlateFinZone.__init__: a TubeBankZone with fins.
PlateFinZone(name, height, tube_dia, R_p2, n_cols, origin_x, stagger, phys) ==
    [TubeBankZone(name, height, tube_dia, R_p2, n_cols, origin_x, stagger, phys)
        EXCEPT !.kind = "finned"]

\* TubeBankZone._rows_in_column: the y positions of the tubes of one column.
rows_in_column(z, offset) ==
    LET y_min == z.tube_dia \div 2
        y_max == z.height - z.tube_dia \div 2
        first_center == y_min + offset
    IN  IF first_center > y_max THEN <<>>
        ELSE LET n_rows == ((y_max - first_center) \div z.S_T) + 1
             IN  [i \in 1..n_rows |-> first_center + (i - 1) * z.S_T]

\* The centers of columns j .. n_cols-1, column by column (the loop of build_geometry).
RECURSIVE column_centers(_, _, _, _)
column_centers(z, j, y_even, y_odd) ==
    IF j >= z.n_cols THEN <<>>
    ELSE LET col_x == z.origin_x + j * z.S_L
             rows  == IF j % 2 # 0 THEN y_odd ELSE y_even
         IN  [r \in 1..Len(rows) |-> <<col_x, z.origin_y + rows[r]>>]
                 \o column_centers(z, j + 1, y_even, y_odd)

\* A build that appends the new centers to the list the zone already holds.
build_geometry_appending(z) ==
    IF z.kind = "pipe" THEN [z EXCEPT !.tube_centers = <<>>]
    ELSE LET odd_offset == IF z.stagger /\ z.S_T > 0 THEN z.S_T \div 2 ELSE 0
             y_even  == rows_in_column(z, 0)
             y_odd   == rows_in_column(z, odd_offset)
             centers == z.tube_centers \o column_centers(z, 0, y_even, y_odd)
         IN  [z EXCEPT !.n_rows_avg2 = Len(y_even) + Len(y_odd),
                       !.tube_centers = centers,
                       !.n_tubes = Len(centers)]

\* TubeBankZone.build_geometry: replaces tube_centers, n_tubes, n_rows_avg.
build_geometry(z) ==
    IF z.kind = "pipe" THEN [z EXCEPT !.tube_centers = <<>>]
    ELSE LET odd_offset == IF z.stagger /\ z.S_T > 0 THEN z.S_T \div 2 ELSE 0
             y_even  == rows_in_column(z, 0)
             y_odd   == rows_in_column(z, odd_offset)
             centers == column_centers(z, 0, y_even, y_odd)
         IN  [z EXCEPT !.n_rows_avg2 = Len(y_even) + Len(y_odd),
                       !.tube_centers = centers,
                       !.n_tubes = Len(centers)]

(***************************************************************************)
(* correlations.py, as far as the zone solve uses it                       *)
(***************************************************************************)
\* calc_Eu_HEDH: the Reynolds power law of the regime (Eu_pow, with the /2 and
\* the experimental correction) times the pitch correction 1 + 0.5/(R_p - 1),
\* which is (R_p2 - 1)/(R_p2 - 2) in the doubled pitch ratio.
calc_Eu_HEDH(Eu_pow, R_p2) == Quot(Eu_pow * (R_p2 - 1), R_p2 - 2)

\* calc_dP_gas_column: Eu * N_rows * dynamic_head, N_rows = n_rows_avg.
calc_dP_gas_column(Eu, q_dyn, n_rows_avg2) == Quot(Eu * n_rows_avg2 * q_dyn, 2)

\* calc_dP_coolant_tube over L_tubes / n_cols: the drop over the whole tube
\* length (dP_c_tube = f*(L_tubes/D)*0.5*rho*u^2) divided by n_cols.
calc_dP_coolant_tube(dP_c_tube, n_cols) == Quot(dP_c_tube, n_cols)

(***************************************************************************)
(* zones.py: PipeFlowZone.solve                                            *)
(***************************************************************************)
\* What a zone.solve call yields: exc = "none" and the four returned values, or
\* the exception that left it.  zone is the zone object after the call.  cause
\* and row say what ended the row loop early and at which row: "gas" or
\* "coolant" for a failed property lookup, "tubes" for the division by n_tubes
\* (row -1: before the loop), "none" when nothing did.
Returned(z, hot_o, cold_o, h_prof, c_prof, cause, row) ==
    [exc |-> "none", zone |-> z, hot_out |-> hot_o, cold_out |-> cold_o,
     h_prof |-> h_prof, c_prof |-> c_prof, cause |-> cause, row |-> row]

Raised(z, exc, cause, row) ==
    [exc |-> exc, zone |-> z, hot_out |-> NoState, cold_out |-> NoState,
     h_prof |-> <<>>, c_prof |-> <<>>, cause |-> cause, row |-> row]

\* The Reynolds number a row records, rho*u*D/mu: the mass flux is the same
\* at every row (GD is mass flux times diameter) and the viscosity grows in
\* proportion to the temperature.
Re_row(GD, T) == Quot(GD, T)

\* dP = f * (length / diameter) * 0.5 * rho * u_avg^2
pipe_dP(z) == z.phys.f_LD * z.phys.q_dyn

\* Variant of pipe_hot_out: the duct loses heat, the gas leaves one unit colder.
pipe_hot_out_cooled(z, hot_in) ==
    FluidState(hot_in.name, hot_in.T - 1, hot_in.P - pipe_dP(z), hot_in.m_dot,
               hot_in.fluid, hot_in.x + z.length)

\* hot_out: Tg unchanged, Pg_out = Pg - dP, x_new = hot_state_in.x + length.
pipe_hot_out(z, hot_in) ==
    FluidState(hot_in.name, hot_in.T, hot_in.P - pipe_dP(z), hot_in.m_dot,
               hot_in.fluid, hot_in.x + z.length)

\* cold_out: the coolant state at the new position.
pipe_cold_out(z, hot_in, cold_in) ==
    FluidState(cold_in.name, cold_in.T, cold_in.P, cold_in.m_dot,
               cold_in.fluid, hot_in.x + z.length)

\* PipeFlowZone.solve.  The two gas lookups are not guarded: a ValueError of
\* the property provider leaves the call.
PipeFlowZone_solve(z, hot_in, cold_in) ==
    IF ~PropsSI_ok(hot_in.T, hot_in.P, hot_in.fluid)
    THEN Raised(z, "ValueError", "gas", -1)
    ELSE LET hot_o  == pipe_hot_out(z, hot_in)
             cold_o == pipe_cold_out(z, hot_in, cold_in)
             res == [set |-> TRUE, Q_total |-> 0, dP_gas |-> pipe_dP(z),
                     dP_cool |-> 0, h_gas_avg |-> 0, h_cool_avg |-> 0,
                     Re_gas_avg |-> Re_row(z.phys.GD, hot_in.T),
                     Re_cool_avg |-> 0, T_gas_out |-> hot_in.T,
                     T_cool_out |-> cold_in.T, rows |-> 1]
         IN  Returned([z EXCEPT !.results = res], hot_o, cold_o,
                      <<hot_o>>, <<cold_o>>, "none", -1)

(***************************************************************************)
(* zones.py: TubeBankZone.solve and PlateFinZone.solve                     *)
(***************************************************************************)
\* Gas-side conductance of one column, doubled.  Bare: h_t * A_surf_tube with
\* A_surf_tube = n_rows_avg * pi * D * L (phys.h_t is h_t*pi*D*L).  Finned:
\* UA_gas_col = h_tube * A_tube_surf + h_fin * A_fin_surf (phys.hA_fin).
G_gas2(z) ==
    IF z.kind = "finned"
    THEN z.phys.h_t * z.n_rows_avg2 + 2 * z.phys.hA_fin
    ELSE z.phys.h_t * z.n_rows_avg2

\* Variant of UA_total: the three conductances in parallel.
UA_parallel(z) ==
    LET a == G_gas2(z)
        b == z.phys.h_c * z.n_rows_avg2
        c == z.phys.g_wall * z.n_rows_avg2
    IN  Quot(a + b + c, 2)

\* UA = 1 / (R_gas + R_cool + R_wall), every resistance the reciprocal of a
\* conductance proportional to n_rows_avg.
UA_total(z) ==
    LET a == G_gas2(z)
        b == z.phys.h_c * z.n_rows_avg2
        c == z.phys.g_wall * z.n_rows_avg2
    IN  Quot(a * b * c, 2 * (b * c + a * c + a * b))

\* The gas film coefficient a row records: h_t of the injected model in a
\* bare zone, h_effective = UA_gas_col / (A_tube_surf + A_fin_surf) in a finned
\* one (the surfaces of a column taken as n_rows_avg + 1 units).
h_gas_row(z) ==
    IF z.kind = "finned" THEN Quot(G_gas2(z), z.n_rows_avg2 + 2) ELSE z.phys.h_t

\* The pitch ratio handed to the Euler-number correlation, doubled:
\* corr.calc_Eu_HEDH(Re_t, self.R_p).
Eu_pitch_ratio2(z) == z.R_p2

\* The geometry entries of model_params in the row loop: eps_por is the
\* attribute set at construction, the pitches and the diameter the current ones.
zone_model_params(z) ==
    [eps_por |-> z.eps_por, D |-> z.tube_dia, S_T |-> z.S_T, S_L |-> z.S_L,
     N_rows |-> z.n_cols]

\* Gas pressure drop of one column.
dP_g_col(z) ==
    calc_dP_gas_column(calc_Eu_HEDH(z.phys.Eu_pow, Eu_pitch_ratio2(z)), z.phys.q_dyn,
                       z.n_rows_avg2)

\* Coolant pressure drop of one column.
dP_c_col(z) == calc_dP_coolant_tube(z.phys.dP_c_tube, z.n_cols)

\* The marched values before row 0, with empty profiles and statistics.
march0(hot_in, cold_in) ==
    [Tg |-> hot_in.T, Pg |-> hot_in.P, Tc |-> cold_in.T, Pc |-> cold_in.P,
     hot_profile |-> <<>>, cold_profile |-> <<>>,
     stats_Q |-> <<>>, stats_h_g |-> <<>>, stats_h_c |-> <<>>,
     stats_Re_g |-> <<>>, stats_Re_c |-> <<>>,
     stats_dP_g |-> <<>>, stats_dP_c |-> <<>>,
     exc |-> "none", cause |-> "none", row |-> -1]

\* Variant of row_update: the sign of the gas temperature update is flipped
\* (Tg += Q / (mdot_g * cp_g)).
row_update_gain(z, hot_in, cold_in, i, m) ==
    LET x_loc == z.origin_x + (i + 1) * z.S_L
        Q  == UA_total(z) * (m.Tg - m.Tc)
        Tg == m.Tg + Quot(Q, hot_in.m_dot * PropsSI_C(hot_in.fluid))
        Tc == m.Tc + Quot(Q, cold_in.m_dot * PropsSI_C(cold_in.fluid))
        Pg == m.Pg - dP_g_col(z)
        Pc == m.Pc - dP_c_col(z)
    IN  [m EXCEPT !.Tg = Tg, !.Pg = Pg, !.Tc = Tc, !.Pc = Pc,
                  !.hot_profile = Append(@, FluidState(hot_in.name, Tg, Pg,
                                           hot_in.m_dot, hot_in.fluid, x_loc)),
                  !.cold_profile = Append(@, FluidState(cold_in.name, Tc, Pc,
                                           cold_in.m_dot, cold_in.fluid, x_loc)),
                  !.stats_Q = Append(@, Q),
                  !.stats_h_g = Append(@, h_gas_row(z)),
                  !.stats_h_c = Append(@, z.phys.h_c),
                  !.stats_Re_g = Append(@, Re_row(z.phys.GD, m.Tg)),
                  !.stats_Re_c = Append(@, Re_row(z.phys.GD_c, m.Tc)),
                  !.stats_dP_g = Append(@, dP_g_col(z)),
                  !.stats_dP_c = Append(@, dP_c_col(z))]

\* The SOLVE block of row i: Q = UA * dT, the explicit update of both
\* temperatures and pressures, one new FluidState per stream at x_loc, and the
\* row's statistics.
row_update(z, hot_in, cold_in, i, m) ==
    LET x_loc == z.origin_x + (i + 1) * z.S_L
        Q  == UA_total(z) * (m.Tg - m.Tc)
        Tg == m.Tg - Quot(Q, hot_in.m_dot * PropsSI_C(hot_in.fluid))
        Tc == m.Tc + Quot(Q, cold_in.m_dot * PropsSI_C(cold_in.fluid))
        Pg == m.Pg - dP_g_col(z)
        Pc == m.Pc - dP_c_col(z)
    IN  [m EXCEPT !.Tg = Tg, !.Pg = Pg, !.Tc = Tc, !.Pc = Pc,
                  !.hot_profile = Append(@, FluidState(hot_in.name, Tg, Pg,
                                           hot_in.m_dot, hot_in.fluid, x_loc)),
                  !.cold_profile = Append(@, FluidState(cold_in.name, Tc, Pc,
                                           cold_in.m_dot, cold_in.fluid, x_loc)),
                  !.stats_Q = Append(@, Q),
                  !.stats_h_g = Append(@, h_gas_row(z)),
                  !.stats_h_c = Append(@, z.phys.h_c),
                  !.stats_Re_g = Append(@, Re_row(z.phys.GD, m.Tg)),
                  !.stats_Re_c = Append(@, Re_row(z.phys.GD_c, m.Tc)),
                  !.stats_dP_g = Append(@, dP_g_col(z)),
                  !.stats_dP_c = Append(@, dP_c_col(z))]

\* Variant of gas_lookup_failed: the ValueError is not caught.
gas_lookup_raised(m, i) == [m EXCEPT !.exc = "ValueError", !.cause = "gas", !.row = i]

\* except ValueError: break -- the loop ends at row i, nothing is raised.
gas_lookup_failed(m, i) == [m EXCEPT !.cause = "gas", !.row = i]

\* The coolant lookups stand outside the try block: their ValueError leaves
\* the loop and the call.
coolant_lookup_failed(m, i) ==
    [m EXCEPT !.exc = "ValueError", !.cause = "coolant", !.row = i]

\* for i in range(n_cols): rows i .. n_cols-1.
RECURSIVE row_loop(_, _, _, _, _)
row_loop(z, hot_in, cold_in, i, m) ==
    IF i >= z.n_cols THEN m
    ELSE IF ~PropsSI_ok(m.Tg, m.Pg, hot_in.fluid) THEN gas_lookup_failed(m, i)
    ELSE IF ~PropsSI_ok(m.Tc, m.Pc, cold_in.fluid) THEN coolant_lookup_failed(m, i)
    ELSE row_loop(z, hot_in, cold_in, i + 1, row_update(z, hot_in, cold_in, i, m))

\* sum(...) over a statistics list.
RECURSIVE Sum(_)
Sum(s) == IF s = <<>> THEN 0 ELSE s[1] + Sum(Tail(s))

\* sum(s) / len(s)
Mean(s) == Quot(Sum(s), Len(s))

\* The results dictionary of a tube-bank or finned zone.  Q_total is held in W
\* (Q_total_kW * 1000).
zone_results(m) ==
    [set |-> TRUE, Q_total |-> Sum(m.stats_Q), dP_gas |-> Sum(m.stats_dP_g),
     dP_cool |-> Sum(m.stats_dP_c),
     h_gas_avg |-> Mean(m.stats_h_g), h_cool_avg |-> Mean(m.stats_h_c),
     Re_gas_avg |-> Mean(m.stats_Re_g), Re_cool_avg |-> Mean(m.stats_Re_c),
     T_gas_out |-> m.Tg, T_cool_out |-> m.Tc,
     rows |-> Len(m.stats_Q)]

\* Variant of zone_return: the states after the first row are returned as the
\* outlets (hot_profile[0], cold_profile[0]).
zone_return_first_row(z, hot_in, cold_in, m) ==
    IF m.stats_Q = <<>>
    THEN Returned(z, hot_in, cold_in, <<>>, <<>>, m.cause, m.row)
    ELSE Returned([z EXCEPT !.results = zone_results(m)],
                  m.hot_profile[1], m.cold_profile[1],
                  m.hot_profile, m.cold_profile, m.cause, m.row)

\* if not stats_Q: return hot_state_in, cold_state_in, [], [] -- otherwise the
\* results are stored and the last row states returned.
zone_return(z, hot_in, cold_in, m) ==
    IF m.stats_Q = <<>>
    THEN Returned(z, hot_in, cold_in, <<>>, <<>>, m.cause, m.row)
    ELSE Returned([z EXCEPT !.results = zone_results(m)],
                  m.hot_profile[Len(m.hot_profile)],
                  m.cold_profile[Len(m.cold_profile)],
                  m.hot_profile, m.cold_profile, m.cause, m.row)

\* mdot_per_tube = mdot_c / self.n_tubes, after the geometry was built where
\* it was missing: the division raises when the zone holds no tube.
tubes_checked(z, hot_in, cold_in) ==
    IF z.n_tubes = 0
    THEN Raised(z, "ZeroDivisionError", "tubes", -1)
    ELSE LET m == row_loop(z, hot_in, cold_in, 0, march0(hot_in, cold_in))
         IN  IF m.exc # "none" THEN Raised(z, m.exc, m.cause, m.row)
             ELSE zone_return(z, hot_in, cold_in, m)

\* TubeBankZone.solve; PlateFinZone.solve has the same control flow.
TubeBankZone_solve(z0, hot_in, cold_in) ==
    LET z1 == IF z0.tube_centers = <<>> THEN build_geometry(z0) ELSE z0
        z2 == IF z1.n_tubes = 0 THEN build_geometry(z1) ELSE z1
    IN  tubes_checked(z2, hot_in, cold_in)

\* zone.solve(current_hot, current_cold), by the zone's class.
zone_solve(z, hot_in, cold_in) ==
    IF z.kind = "pipe" THEN PipeFlowZone_solve(z, hot_in, cold_in)
    ELSE TubeBankZone_solve(z, hot_in, cold_in)

(***************************************************************************)
(* assembly.py: HeatExchanger                                              *)
(***************************************************************************)
\* Variant of add_zone: the last zone's length is taken as one pitch, without
\* its column count.
add_zone_one_pitch(zs, zone) ==
    LET current_x_offset ==
            IF zs # <<>>
            THEN LET last_zone == zs[Len(zs)]
                 IN  last_zone.origin_x + last_zone.S_L
            ELSE 0
    IN  Append(zs, [zone EXCEPT !.origin_x = current_x_offset])

\* HeatExchanger.add_zone: the zone's origin_x is overwritten with the end of
\* the last zone (0 for the first), then the zone is appended.
add_zone(zs, zone) ==
    LET current_x_offset ==
            IF zs # <<>>
            THEN LET last_zone == zs[Len(zs)]
                 IN  last_zone.origin_x + last_zone.n_cols * last_zone.S_L
            ELSE 0
    IN  Append(zs, [zone EXCEPT !.origin_x = current_x_offset])

\* Variant of reset_profile: the inlet is appended to the old profile.
reset_profile_kept(profile, inlet) == Append(profile, inlet)

\* self.hot_stream.profile = [current_hot]: the old profile is dropped.
reset_profile(profile, inlet) == <<inlet>>

\* self.hot_stream.profile.extend(h_prof)
extend_profile(profile, prof) == profile \o prof

\* Variant of advance: the running state is not updated.
advance_stale(current, out) == current

\* current_hot = h_out
advance(current, out) == out

\* Variant of args_after: the zone moves the gas state it was handed to the
\* zone's end (hot_state_in.x = origin_x + n_cols * S_L).
args_after_moved(z, hot_in, cold_in) ==
    <<[hot_in EXCEPT !.x = z.origin_x + z.n_cols * z.S_L], cold_in>>

\* The two FluidState objects handed to zone.solve, as the call leaves them:
\* solve reads T, P, m_dot, name, fluid_obj, fluid_string and x of its
\* arguments and assigns none of their attributes.
args_after(z, hot_in, cold_in) == <<hot_in, cold_in>>

\* The profile after a call that was handed its last element: current_hot is
\* the same object as hot_stream.profile[-1].
last_replaced(profile, state) == [profile EXCEPT ![Len(profile)] = state]

\* One entry of the call log: what zone k was handed and what its solve yielded.
call_record(k, z, hot_in, cold_in, r) ==
    [k |-> k, kind |-> z.kind, name |-> z.name, n_cols |-> z.n_cols,
     hot_in |-> hot_in, cold_in |-> cold_in,
     exc |-> r.exc, cause |-> r.cause, row |-> r.row,
     hot_out |-> r.hot_out, cold_out |-> r.cold_out,
     h_prof |-> r.h_prof, c_prof |-> r.c_prof,
     zone |-> r.zone]

\* for zone in self.zones: zones k .. Len(zones), until one raises.
RECURSIVE solve_zones(_, _)
solve_zones(k, st) ==
    IF k > Len(st.zones) THEN st
    ELSE LET r   == zone_solve(st.zones[k], st.current_hot, st.current_cold)
             log == Append(st.calls, call_record(k, st.zones[k], st.current_hot,
                                                 st.current_cold, r))
             after == args_after(st.zones[k], st.current_hot, st.current_cold)
         IN  IF r.exc # "none"
             THEN [st EXCEPT !.exc = r.exc, !.zones[k] = r.zone, !.calls = log,
                             !.hot_profile = last_replaced(@, after[1]),
                             !.cold_profile = last_replaced(@, after[2])]
             ELSE solve_zones(k + 1,
                      [st EXCEPT !.zones[k] = r.zone, !.calls = log,
                                 !.hot_profile =
                                     extend_profile(last_replaced(@, after[1]), r.h_prof),
                                 !.cold_profile =
                                     extend_profile(last_replaced(@, after[2]), r.c_prof),
                                 !.current_hot = advance(@, r.hot_out),
                                 !.current_cold = advance(@, r.cold_out)])

(***************************************************************************)
(* Configurations                                                          *)
(***************************************************************************)
\* Stand-ins for what the property provider, the injected model and the
\* correlations yield in a nominal zone.
NominalPhys ==
    [h_t |-> 4, h_c |-> 4, g_wall |-> 4, hA_fin |-> 0,
     Eu_pow |-> 1, q_dyn |-> 5, dP_c_tube |-> 20, f_LD |-> 2,
     GD |-> 600000, GD_c |-> 300000]

\* The zones a caller may construct and add.
ZoneCatalogue ==
    { PipeFlowZone("Duct", 5, NominalPhys),
      TubeBankZone("Bank", 10, 4, 3, 2, 0, TRUE, NominalPhys),
      \* a row conductance above the gas capacity rate
      TubeBankZone("Hot", 10, 4, 3, 3, 7, TRUE,
                   [NominalPhys EXCEPT !.h_t = 60, !.h_c = 60, !.g_wall = 60]),
      \* a dynamic head that drives the gas pressure below zero in two rows
      TubeBankZone("Choke", 10, 4, 3, 3, 0, TRUE, [NominalPhys EXCEPT !.q_dyn = 20]),
      \* a coolant friction drop that drives the coolant pressure to zero
      TubeBankZone("Leak", 10, 4, 3, 3, 0, TRUE, [NominalPhys EXCEPT !.dP_c_tube = 900]),
      PlateFinZone("Fin", 10, 4, 4, 2, 0, TRUE, [NominalPhys EXCEPT !.hA_fin = 4]),
      \* row count 0
      TubeBankZone("Empty", 10, 4, 3, 0, 0, TRUE, NominalPhys),
      \* a frontal height in which no tube fits
      TubeBankZone("Slot", 2, 4, 3, 2, 0, TRUE, NominalPhys) }

\* The gas inlet: x defaults to 0 and may be given.
HotInlets == { FluidState("gas", 600, 100, 20, "Nitrogen", x) : x \in {0, 1} }

ColdInlets == { FluidState("coolant", 300, 600, 25, "Water", 0) }

(***************************************************************************)
(* Floating-point values of the plug-ins                                   *)
(*                                                                         *)
(* A real value is held by its sign and, when it is not zero, the natural  *)
(* logarithm of its magnitude in thousandths: products become sums and a   *)
(* power becomes a multiple, and the order of two positive values is the   *)
(* order of their logarithms.  ln and exp are piecewise linear between     *)
(* tabulated points and non-decreasing.  "complex" is the value Python     *)
(* gives a negative float raised to a fractional power; "undefined" is     *)
(* 0.0 raised to a negative power (ZeroDivisionError).                     *)
(***************************************************************************)
\* 1000 * ln(1 + i/32), i = 0..32
LnTable ==
    <<0, 31, 61, 90, 118, 145, 172, 198, 223, 248, 272,
      295, 318, 341, 363, 384, 405, 426, 446, 466, 486, 505,
      523, 542, 560, 577, 595, 612, 629, 645, 661, 677, 693>>

\* 1000 * 2^(i/32), i = 0..32
ExpTable ==
    <<1000, 1022, 1044, 1067, 1091, 1114, 1139, 1164, 1189, 1215, 1242,
      1269, 1297, 1325, 1354, 1384, 1414, 1445, 1477, 1509, 1542, 1576,
      1610, 1646, 1682, 1719, 1756, 1795, 1834, 1874, 1915, 1957, 2000>>

\* k with 2^k <= n < 2^(k+1), n >= 1
RECURSIVE ilog2(_)
ilog2(n) == IF n < 2 THEN 0 ELSE 1 + ilog2(n \div 2)

RECURSIVE pow2(_)
pow2(k) == IF k = 0 THEN 1 ELSE 2 * pow2(k - 1)

\* math.log(n) in thousandths for a whole number n >= 1: k * ln 2 plus the
\* logarithm of the mantissa n / 2^k.
ln(n) ==
    LET k == ilog2(n)
        f == IF k >= 10 THEN n \div pow2(k - 10) ELSE n * pow2(10 - k)
        i == (f - 1024) \div 32
        r == (f - 1024) % 32
    IN  Quot(k * 693147, 1000) + LnTable[i + 1]
          + ((LnTable[i + 2] - LnTable[i + 1]) * r) \div 32

\* 1000 * math.exp(x) for x in thousandths: 2^k times the tabulated power of
\* the remainder.
exp(x) ==
    LET k == IF x >= 0 THEN (x * 1000) \div 693147
             ELSE -(((-x) * 1000 + 693146) \div 693147)
        r == x - Quot(k * 693147, 1000)
        p == IF r < 0 THEN 0 ELSE IF r > 692 THEN 692 ELSE r
        i == (p * 32) \div 693
        q == (p * 32) % 693
        m == ExpTable[i + 1] + ((ExpTable[i + 2] - ExpTable[i + 1]) * q) \div 693
    IN  IF k >= 0 THEN m * pow2(k) ELSE m \div pow2(-k)

Pos(l)    == [sign |-> "pos", ln |-> l]
Neg(l)    == [sign |-> "neg", ln |-> l]
Zero      == [sign |-> "zero", ln |-> 0]
Complex   == [sign |-> "complex", ln |-> 0]
Undefined == [sign |-> "undefined", ln |-> 0]

\* The float v / scale, v and scale whole numbers, scale > 0.
Float(v, scale) ==
    IF v = 0 THEN Zero
    ELSE IF v > 0 THEN Pos(ln(v) - ln(scale))
    ELSE Neg(ln(-v) - ln(scale))

\* x * y
Mul(x, y) ==
    IF x.sign = "undefined" \/ y.sign = "undefined" THEN Undefined
    ELSE IF x.sign = "complex" \/ y.sign = "complex" THEN Complex
    ELSE IF x.sign = "zero" \/ y.sign = "zero" THEN Zero
    ELSE IF x.sign = y.sign THEN Pos(x.ln + y.ln)
    ELSE Neg(x.ln + y.ln)

\* x ** p, p in thousandths and not a whole number unless it is 0
Pow(x, p) ==
    IF x.sign \in {"undefined", "complex"} THEN x
    ELSE IF p = 0 THEN Pos(0)
    ELSE IF x.sign = "pos" THEN Pos(Quot(x.ln * p, 1000))
    ELSE IF x.sign = "zero" THEN (IF p > 0 THEN Zero ELSE Undefined)
    ELSE Complex

\* x / y
Div(x, y) ==
    IF y.sign = "zero" THEN Undefined
    ELSE Mul(x, [y EXCEPT !.ln = -y.ln])

\* x <= y for two real values
Leq(x, y) ==
    /\ x.sign \in {"pos", "zero", "neg"}
    /\ y.sign \in {"pos", "zero", "neg"}
    /\ CASE x.sign = "neg"  -> (y.sign = "neg" => y.ln <= x.ln)
         [] x.sign = "zero" -> y.sign # "neg"
         [] x.sign = "pos"  -> (y.sign = "pos" /\ x.ln <= y.ln)

(***************************************************************************)
(* models/: the Heat-Transfer Model plug-ins                               *)
(*                                                                         *)
(* Re is a whole number; S_T, S_L and D are whole multiples of one length  *)
(* unit, and a pitch ratio S_T/D is compared with a limit exactly, by      *)
(* cross-multiplying (limits in hundredths).  N_rows is a Python int or    *)
(* float: a record of its type and its value in halves.  C2 is held in     *)
(* hundredths.  A result records the exception raised (or "none"), the     *)
(* row correction C2 that entered the product, and the logarithms and      *)
(* power laws evaluated on the Reynolds number (evals: the function and    *)
(* its operand in hundredths); a returning call also records the value Nu  *)
(* and the coefficients that produced it.  Pr is held in hundredths.       *)
(***************************************************************************)
\* A Python int n, and a Python float of h halves.
PyInt(n)   == [float |-> FALSE, halves |-> 2 * n]
PyFloat(h) == [float |-> TRUE,  halves |-> h]

\* float.is_integer()
is_integer(N) == N.halves % 2 = 0

\* int(N): truncation toward zero
int(N) == Quot(N.halves, 2)

\* What a call leaves: raise exc, or return the value with factor C2.
NuResult(exc, C2, evals) == [exc |-> exc, C2 |-> C2, evals |-> evals]

\* One evaluation of math.log or of ** on a Reynolds number (operand in hundredths).
Evaluated(f, arg100) == [f |-> f, arg100 |-> arg100]

\* GrimisonModel.LIMITS
Re_min == 500
Re_max == 40000
a_min == 125
a_max == 360
b_min == 60
b_max == 300

\* GrimisonModel._ROW_CORRECTIONS, keys 1..9
ROW_CORRECTIONS == <<68, 75, 83, 89, 92, 95, 97, 98, 99>>

\* Variant of _check_reynolds without the upper limit.
check_reynolds_lower_only(Re) ==
    IF Re < Re_min THEN "ValueError" ELSE "none"

\* GrimisonModel._check_reynolds
check_reynolds(Re) ==
    IF Re < Re_min THEN "ValueError"
    ELSE IF Re > Re_max THEN "ValueError"
    ELSE "none"

\* GrimisonModel._check_geometry(S_T/D, S_L/D): overlap, then the table range.
check_geometry(S_T, S_L, D) ==
    IF S_T * S_T + 4 * S_L * S_L < 4 * D * D THEN "ValueError"
    ELSE IF ~ ( /\ a_min * D <= 100 * S_T /\ 100 * S_T <= a_max * D
                /\ b_min * D <= 100 * S_L /\ 100 * S_L <= b_max * D )
         THEN "ValueError"
    ELSE "none"

\* Variant of _get_c2_factor: above the table the last tabulated step is repeated.
get_c2_factor_stepped(N_rows) ==
    IF N_rows.float /\ ~is_integer(N_rows) THEN NuResult("ValueError", 0, <<>>)
    ELSE LET n_int == int(N_rows)
         IN  IF n_int < 1 THEN NuResult("ValueError", 0, <<>>)
             ELSE IF n_int > 9 THEN NuResult("none", ROW_CORRECTIONS[8], <<>>)
             ELSE NuResult("none", ROW_CORRECTIONS[n_int], <<>>)

\* GrimisonModel._get_c2_factor
get_c2_factor(N_rows) ==
    IF N_rows.float /\ ~is_integer(N_rows) THEN NuResult("ValueError", 0, <<>>)
    ELSE LET n_int == int(N_rows)
         IN  IF n_int < 1 THEN NuResult("ValueError", 0, <<>>)
             ELSE IF n_int > 9 THEN NuResult("none", 100, <<>>)
             ELSE NuResult("none", ROW_CORRECTIONS[n_int], <<>>)

\* The model object: "GrimisonModel(nearest)" is GrimisonModel(method="nearest"),
\* "GrimisonModel" is GrimisonModel() with the default method "hammock".
class_name(model) == IF model = "GrimisonModel(nearest)" THEN "GrimisonModel" ELSE model

method(model) == IF model = "GrimisonModel(nearest)" THEN "nearest" ELSE "hammock"

\* What a returning call leaves: the value Nu with the facts of the result r;
\* 0.0 raised to a negative power raises instead.
NuReturned(r, Nu, facts) ==
    IF Nu.sign = "undefined" THEN NuResult("ZeroDivisionError", 0, r.evals)
    ELSE [Nu |-> Nu] @@ facts @@ r

\* GrimisonModel._COEFFICIENTS in dict order: <<a, b, C1, m>>, thousandths.
COEFFICIENTS ==
    << <<3000,  600, 213, 636>>,
       <<2000,  900, 446, 571>>, <<3000,  900, 401, 581>>,
       <<1500, 1000, 497, 558>>,
       <<2000, 1125, 478, 565>>, <<3000, 1125, 518, 560>>,
       <<1250, 1250, 518, 556>>, <<1500, 1250, 505, 554>>,
       <<2000, 1250, 519, 556>>, <<3000, 1250, 552, 562>>,
       <<1250, 1500, 451, 568>>, <<1500, 1500, 460, 562>>,
       <<2000, 1500, 452, 568>>, <<3000, 1500, 488, 568>>,
       <<1250, 2000, 404, 568>>, <<1500, 2000, 416, 568>>,
       <<2000, 2000, 482, 556>>, <<3000, 2000, 449, 570>>,
       <<1250, 3000, 310, 592>>, <<1500, 3000, 356, 580>>,
       <<2000, 3000, 440, 562>>, <<3000, 3000, 428, 574>> >>

\* c2 * a**2 + c1 * a + c0: coefficients in millionths, a in hundredths.
quadratic(c2, c1, c0, a) == Quot((Quot(c2 * a, 100) + c1) * a, 100) + c0

\* A * b**3 + B * b**2 + C * b + D: coefficients in millionths, b in hundredths.
cubic(A, B, C, D, b) == Quot((Quot((Quot(A * b, 100) + B) * b, 100) + C) * b, 100) + D

\* Variant of _get_coeffs_hammock with the constant term of d_coeff negated.
get_coeffs_hammock_neg_d(S_T, S_L, D) ==
    LET a == Quot(100 * S_T, D)
        b == Quot(100 * S_L, D)
    IN  [C1 |-> cubic(quadratic(-66572, 438619, -534414, a),
                      quadratic(447806, -2867419, 3482562, a),
                      quadratic(-1046594, 6359781, -7686638, a),
                      quadratic(803673, -4605252, -5975412, a), b),
         m  |-> cubic(quadratic(9058, -76068, 104510, a),
                      quadratic(-71578, 534418, -706706, a),
                      quadratic(193359, -1270342, 1608849, a),
                      quadratic(-154482, 934097, -585832, a), b)]

\* GrimisonModel._get_coeffs_hammock: C1 and m in millionths, polynomials in
\* a = S_T/D and b = S_L/D (hundredths).
get_coeffs_hammock(S_T, S_L, D) ==
    LET a == Quot(100 * S_T, D)
        b == Quot(100 * S_L, D)
    IN  [C1 |-> cubic(quadratic(-66572, 438619, -534414, a),
                      quadratic(447806, -2867419, 3482562, a),
                      quadratic(-1046594, 6359781, -7686638, a),
                      quadratic(803673, -4605252, 5975412, a), b),
         m  |-> cubic(quadratic(9058, -76068, 104510, a),
                      quadratic(-71578, 534418, -706706, a),
                      quadratic(193359, -1270342, 1608849, a),
                      quadratic(-154482, 934097, -585832, a), b)]

\* GrimisonModel._get_coeffs_nearest: the first table key at the least distance
\* from (S_T/D, S_L/D); C1 and m in millionths.
get_coeffs_nearest(S_T, S_L, D) ==
    LET target_a == Quot(1000 * S_T, D)
        target_b == Quot(1000 * S_L, D)
        d2(k) == (COEFFICIENTS[k][1] - target_a) * (COEFFICIENTS[k][1] - target_a)
                   + (COEFFICIENTS[k][2] - target_b) * (COEFFICIENTS[k][2] - target_b)
        best_key == CHOOSE k \in 1..Len(COEFFICIENTS) :
                        /\ \A j \in 1..Len(COEFFICIENTS) : d2(k) <= d2(j)
                        /\ \A j \in 1..(k - 1) : d2(k) < d2(j)
    IN  [C1 |-> 1000 * COEFFICIENTS[best_key][3], m |-> 1000 * COEFFICIENTS[best_key][4]]

\* GrimisonModel.calculate_Nu: validate geometry, then Reynolds, then the
\* coefficients by self.method, then C2; return C2 * C1 * Re**m * Pr**(1/3).
Grimison_calculate_Nu(self, Re, Pr, kw) ==
    IF check_geometry(kw.S_T, kw.S_L, kw.D) # "none" THEN NuResult("ValueError", 0, <<>>)
    ELSE IF check_reynolds(Re) # "none" THEN NuResult("ValueError", 0, <<>>)
    ELSE LET c == IF method(self) = "hammock" THEN get_coeffs_hammock(kw.S_T, kw.S_L, kw.D)
                  ELSE get_coeffs_nearest(kw.S_T, kw.S_L, kw.D)
             c2 == get_c2_factor(kw.N_rows)
         IN  IF c2.exc # "none" THEN c2
             ELSE NuReturned(NuResult("none", c2.C2, <<Evaluated("pow", 100 * Re)>>),
                           Mul(Mul(Mul(Float(c2.C2, 100), Float(c.C1, 1000000)),
                                   Pow(Float(Re, 1), Quot(c.m, 1000))),
                               Pow(Float(Pr, 100), 333)),
                           [C1 |-> c.C1, m |-> c.m])

\* math.tanh(x) for x > 0: x * (1 - x**2 / 3) below 0.2, 1 - 2 / (exp(2x) + 1)
\* from there on, 1.0 from 7 on.
tanh(x) ==
    IF x.ln < -1609 THEN Pos(x.ln - Quot(IF x.ln < -7000 THEN 0 ELSE exp(2 * x.ln), 3))
    ELSE IF x.ln >= 1946 THEN Pos(0)
    ELSE Float(1000000 - Quot(2000000000, exp(2 * exp(x.ln)) + 1000), 1000000)

\* ModifiedGrimisonModel._calculate_xi_hammock with N_L = 1: 1.0 for Re <= 0,
\* otherwise tanh(sqrt(N_L) * Re/2000 * (Pr/0.71)**(1/3)) ** (1/3).
calculate_xi_hammock(Re, Pr) ==
    IF Re <= 0 THEN Pos(0)
    ELSE LET term_rows == Pos(0)
             term_re == Float(Re, 2000)
             term_pr == Pow(Float(Pr, 71), 333)
             arg == Mul(Mul(term_rows, term_re), term_pr)
         IN  Pow(tanh(arg), 333)

\* ModifiedGrimisonModel.calculate_Nu: the Hammock coefficients, C2, Xi_H, and
\* 1.13 * Xi_H * C1 * C2 * Re**m * Pr**(1/3).  Neither _check_geometry nor
\* _check_reynolds is called.
ModifiedGrimison_calculate_Nu(Re, Pr, kw) ==
    LET c == get_coeffs_hammock(kw.S_T, kw.S_L, kw.D)
        c2 == get_c2_factor(kw.N_rows)
        xi_h == calculate_xi_hammock(Re, Pr)
    IN  IF c2.exc # "none" THEN c2
        ELSE NuReturned(NuResult("none", c2.C2, <<Evaluated("pow", 100 * Re)>>),
                      Mul(Mul(Mul(Mul(Mul(Float(113, 100), xi_h), Float(c.C1, 1000000)),
                                  Float(c2.C2, 100)),
                              Pow(Float(Re, 1), Quot(c.m, 1000))),
                          Pow(Float(Pr, 100), 333)),
                      [C1 |-> c.C1, m |-> c.m])

\* ZhukauskasModel._get_c1_m: C1 in thousandths (for 1000 <= Re < 2e5 and
\* S_T/S_L < 2 the factor 0.35 that multiplies (S_T/S_L)**0.2), m in hundredths.
get_c1_m(Re, ST, SL) ==
    IF Re < 100 THEN [C1 |-> 900, m |-> 40, pitch_pow |-> FALSE]
    ELSE IF Re < 1000 THEN [C1 |-> 510, m |-> 50, pitch_pow |-> FALSE]
    ELSE IF Re < 200000
         THEN IF ST < 2 * SL THEN [C1 |-> 350, m |-> 60, pitch_pow |-> TRUE]
              ELSE [C1 |-> 400, m |-> 60, pitch_pow |-> FALSE]
    ELSE [C1 |-> 22, m |-> 84, pitch_pow |-> FALSE]

\* ZhukauskasModel._get_c2: the sparse tables for Re > 1000 and for Re <= 1000.
c2_table_high ==
    (1 :> 64) @@ (2 :> 76) @@ (3 :> 84) @@ (4 :> 89) @@ (5 :> 92) @@
    (7 :> 95) @@ (10 :> 97) @@ (13 :> 98) @@ (16 :> 99)

c2_table_low ==
    (1 :> 83) @@ (2 :> 88) @@ (3 :> 91) @@ (4 :> 94) @@ (5 :> 95) @@
    (7 :> 97) @@ (10 :> 98) @@ (13 :> 99) @@ (16 :> 100)

\* The Reynolds band of the row-correction table ZhukauskasModel._get_c2 reads.
get_c2_table(Re) == IF Re > 1000 THEN "high" ELSE "low"

\* ZhukauskasModel._get_c2: table.get(int(N_rows), 1.0) below 20 rows.
get_c2(N_rows, Re) ==
    IF N_rows.halves >= 40 THEN 100
    ELSE LET table == IF get_c2_table(Re) = "high" THEN c2_table_high ELSE c2_table_low
             n == int(N_rows)
         IN  IF n \in DOMAIN table THEN table[n] ELSE 100

\* kwargs.get(key, default)
kwargs_get(kw, key, default) == IF key \in DOMAIN kw THEN kw[key] ELSE default

\* ZhukauskasModel.calculate_Nu: C1 * C2 * Re**m * Pr**n * (Pr/Pr_s)**0.25 with
\* n = 0.36; S_T and S_L are required, N_rows defaults to 20 and Pr_wall to Pr.
Zhukauskas_calculate_Nu(Re, Pr, kw) ==
    IF ~ ({"S_T", "S_L"} \subseteq DOMAIN kw) THEN NuResult("ValueError", 0, <<>>)
    ELSE LET N_rows == kwargs_get(kw, "N_rows", PyInt(20))
             Pr_s == kwargs_get(kw, "Pr_wall", Pr)
             c == get_c1_m(Re, kw.S_T, kw.S_L)
             C1 == IF c.pitch_pow
                   THEN Mul(Float(c.C1, 1000), Pow(Float(kw.S_T, kw.S_L), 200))
                   ELSE Float(c.C1, 1000)
             C2 == get_c2(N_rows, Re)
         IN  NuReturned(NuResult("none", C2, <<Evaluated("pow", 100 * Re)>>),
                      Mul(Mul(Mul(Mul(C1, Float(C2, 100)),
                                  Pow(Float(Re, 1), 10 * c.m)),
                              Pow(Float(Pr, 100), 360)),
                          Pow(Float(Pr, Pr_s), 250)),
                      [m |-> c.m,
                       table |-> IF N_rows.halves >= 40 THEN "none" ELSE get_c2_table(Re)])

\* 1.0 + x for x >= 0
one_plus(x) ==
    IF x.sign = "zero" \/ x.ln < -14000 THEN Pos(0)
    ELSE Float(1000 + exp(x.ln), 1000)

\* TariqModel.calculate_Nu.  eps_por is in thousandths; Kn, in millionths, is
\* the Knudsen number the code forms from mu, rho, D, M_gas and T.
\* c1 = 3.12 - 0.16 exp(3 eps), c2 = 3.45 - 3 exp(-3.45 eps),
\* Re_safe = max(Re, 1.01), ln_Re = math.log(Re_safe), and
\* Nu = (0.48 - 0.2 eps) * ln_Re**c1 * Pr / (eps / (1 - eps))
\*        / (1 + 0.1 * ln_Re**c2 * Kn).  No row correction.
Tariq_calculate_Nu(Re, Pr, kw) ==
    IF ~ ({"eps_por", "Kn", "D"} \subseteq DOMAIN kw) THEN NuResult("ValueError", 0, <<>>)
    ELSE LET eps == kw.eps_por
             c1 == 3120 - Quot(160 * exp(3 * eps), 1000)
             c2 == 3450 - Quot(3000 * exp(-Quot(3450 * eps, 1000)), 1000)
             Re_safe == IF 100 * Re > 101 THEN 100 * Re ELSE 101
             ln_Re == IF Re >= 2 THEN Float(ln(Re), 1000) ELSE Float(10, 1000)
             term1 == Float(480 - Quot(200 * eps, 1000), 1000)
             term2 == Float(eps, 1000 - eps)
             term3 == Pow(ln_Re, c1)
             numerator == Div(Mul(Mul(term1, term3), Float(Pr, 100)), term2)
             denominator == one_plus(Mul(Mul(Float(1, 10), Pow(ln_Re, c2)),
                                         Float(kw.Kn, 1000000)))
         IN  NuReturned(NuResult("none", 100, <<Evaluated("log", Re_safe)>>),
                      Div(numerator, denominator),
                      [c1 |-> c1, c2 |-> c2])

\* model.calculate_Nu(Re, Pr, **kwargs) on the injected model.
calculate_Nu(model, Re, Pr, kw) ==
    CASE class_name(model) = "GrimisonModel"         -> Grimison_calculate_Nu(model, Re, Pr, kw)
      [] class_name(model) = "ModifiedGrimisonModel" -> ModifiedGrimison_calculate_Nu(Re, Pr, kw)
      [] class_name(model) = "ZhukauskasModel"       -> Zhukauskas_calculate_Nu(Re, Pr, kw)
      [] class_name(model) = "TariqModel"            -> Tariq_calculate_Nu(Re, Pr, kw)

\* No plug-in call made yet.
NoCall == [op |-> "none", done |-> FALSE]

(***************************************************************************)
(* zones.py: the gas-side Reynolds number of a row and the resistance      *)
(* network, as functions of the row's inputs                               *)
(***************************************************************************)
\* The methods a model class defines itself.
own_methods(cls) ==
    CASE cls = "GrimisonModel" ->
             {"_check_reynolds", "_check_geometry", "_get_c2_factor",
              "_get_coeffs_hammock", "_get_coeffs_nearest",
              "calculate_Re_max", "calculate_Nu"}
      [] cls = "ModifiedGrimisonModel" -> {"_calculate_xi_hammock", "calculate_Nu"}
      [] cls = "ZhukauskasModel" -> {"_get_c1_m", "_get_c2", "calculate_Nu"}
      [] cls = "TariqModel" -> {"calculate_Nu"}

\* class ModifiedGrimisonModel(GrimisonModel); the others derive from the
\* abstract HeatTransferModel, which defines calculate_Nu only.
base_class(cls) == IF cls = "ModifiedGrimisonModel" THEN "GrimisonModel" ELSE "HeatTransferModel"

\* hasattr(self.model, attr)
hasattr(model, attr) ==
    LET cls == class_name(model)
    IN  \/ attr \in own_methods(cls)
        \/ base_class(cls) # "HeatTransferModel" /\ attr \in own_methods(base_class(cls))

\* math.sqrt on the whole numbers of the model: the integer root.
sqrt(n) == CHOOSE r \in 0..n : r * r <= n /\ n < (r + 1) * (r + 1)

\* GrimisonModel.calculate_Re_max: the velocity through the diagonal gap when
\* S_D < (S_T + D)/2, through the transverse gap otherwise; rho*u_max*D/mu.
calculate_Re_max(m_dot, A_front, S_T, S_L, D, mu) ==
    LET S_D == sqrt(S_L * S_L + Quot(S_T * S_T, 4))
    IN  IF mu <= 0 THEN 0
        ELSE IF 2 * S_D < S_T + D
             THEN Quot(m_dot * S_T * D, A_front * 2 * (S_D - D) * mu)
             ELSE Quot(m_dot * S_T * D, A_front * (S_T - D) * mu)

\* correlations.calc_Re with u = mdot_g / (rho_g * A_min_flow).
calc_Re(m_dot, A_min_flow, L_char, mu) ==
    IF mu <= 0 THEN 0 ELSE Quot(m_dot * L_char, A_min_flow * mu)

\* Variant of gas_Re: always the Reynolds number over the gap area.
gas_Re_gap_only(kind, model, g) ==
    LET open == IF kind = "finned" THEN g.fin_pitch - g.fin_thickness ELSE 1
        pitch == IF kind = "finned" THEN g.fin_pitch ELSE 1
    IN  calc_Re(g.m_dot * pitch * g.S_T, g.A_front * (g.S_T - g.D) * open,
                g.D, g.mu)

\* The Reynolds number of the row: the model's calculate_Re_max when the model
\* has one (on A_front, times the fin blockage in a finned zone), otherwise
\* calc_Re over A_min_flow = A_front * sigma_gap (times the fin blockage).
\* The fin blockage is 1 - fin_thickness/fin_pitch = open/pitch and sigma_gap is
\* (S_T - D)/S_T; both quotients are carried into the one final division.
gas_Re(kind, model, g) ==
    LET open == IF kind = "finned" THEN g.fin_pitch - g.fin_thickness ELSE 1
        pitch == IF kind = "finned" THEN g.fin_pitch ELSE 1
    IN  IF hasattr(model, "calculate_Re_max")
        THEN calculate_Re_max(g.m_dot * pitch, g.A_front * open,
                              g.S_T, g.S_L, g.D, g.mu)
        ELSE calc_Re(g.m_dot * pitch * g.S_T, g.A_front * (g.S_T - g.D) * open,
                     g.D, g.mu)

(***************************************************************************)
(* builders.py: HXBuilder                                                  *)
(*                                                                         *)
(* A zone record of a configuration is a Python dict: a function from the  *)
(* keys it holds to their values ('Rp' in halves).                         *)
(***************************************************************************)
\* HXBuilder.__init__(name, physics_model): no further parameter is accepted,
\* a pressure_model keyword is a TypeError and no builder is made.
HXBuilder(name, physics_model, kwargs) ==
    IF kwargs # {}
    THEN [name |-> name, model |-> "none", zones |-> <<>>, exc |-> "TypeError",
          configs |-> <<>>, n_before |-> 0]
    ELSE [name |-> name, model |-> physics_model, zones |-> <<>>, exc |-> "none",
          configs |-> <<>>, n_before |-> 0]

\* cfg.get(key, default)
get(cfg, key, default) == IF key \in DOMAIN cfg THEN cfg[key] ELSE default

\* str.lower() on the type names used
lower(s) ==
    CASE s = "Bare" -> "bare" [] s = "PIPE" -> "pipe" [] s = "Finned" -> "finned"
      [] OTHER -> s

\* f"Zone_{len(self.zones)}"
zone_default_name(n) ==
    CASE n = 0 -> "Zone_0" [] n = 1 -> "Zone_1" [] n = 2 -> "Zone_2"
      [] n = 3 -> "Zone_3" [] OTHER -> "Zone_n"

\* A zone as the builder constructs it: the zone and the model passed as model=.
injected(zone, model) == zone @@ [model |-> model]

\* HXBuilder._add_pipe: cfg['length'], cfg['diameter']; no model is passed.
add_pipe(b, name, cfg) ==
    IF ~ {"length", "diameter"} \subseteq DOMAIN cfg THEN [b EXCEPT !.exc = "KeyError"]
    ELSE [b EXCEPT !.zones = Append(@, PipeFlowZone(name, cfg["length"], NominalPhys))]

\* HXBuilder._add_bare: cfg['width'], cfg['tube_od'], cfg['tubes_deep'];
\* height, Rp and stagger have defaults; S_T and S_L are overwritten after
\* construction when given.
add_bare(b, name, cfg) ==
    IF ~ {"width", "tube_od", "tubes_deep"} \subseteq DOMAIN cfg
    THEN [b EXCEPT !.exc = "KeyError"]
    ELSE LET zone == TubeBankZone(name, get(cfg, "height", cfg["width"]), cfg["tube_od"],
                                  get(cfg, "Rp", 3), cfg["tubes_deep"], 0,
                                  get(cfg, "stagger", TRUE), NominalPhys)
             z1 == IF "S_T" \in DOMAIN cfg THEN [zone EXCEPT !.S_T = cfg["S_T"]] ELSE zone
             z2 == IF "S_L" \in DOMAIN cfg THEN [z1 EXCEPT !.S_L = cfg["S_L"]] ELSE z1
         IN  [b EXCEPT !.zones = Append(@, injected(z2, b.model))]

\* HXBuilder._add_finned: as _add_bare, and cfg['fin_pitch'], cfg['fin_thickness'].
add_finned(b, name, cfg) ==
    IF ~ {"width", "tube_od", "tubes_deep", "fin_pitch", "fin_thickness"} \subseteq DOMAIN cfg
    THEN [b EXCEPT !.exc = "KeyError"]
    ELSE LET zone == PlateFinZone(name, get(cfg, "height", cfg["width"]), cfg["tube_od"],
                                  get(cfg, "Rp", 4), cfg["tubes_deep"], 0,
                                  get(cfg, "stagger", TRUE),
                                  [NominalPhys EXCEPT !.hA_fin = 4])
         IN  [b EXCEPT !.zones = Append(@, injected(zone, b.model))]

\* for cfg in config_list[i..]: the loop of add_zones_from_config, left by the
\* first exception.
RECURSIVE add_zones_loop(_, _, _)
add_zones_loop(b, config_list, i) ==
    IF i > Len(config_list) \/ b.exc # "none" THEN b
    ELSE LET cfg == config_list[i]
             z_type == lower(get(cfg, "type", "bare"))
             name == get(cfg, "name", zone_default_name(Len(b.zones)))
         IN  CASE z_type = "pipe"   -> add_zones_loop(add_pipe(b, name, cfg), config_list, i + 1)
               [] z_type = "bare"   -> add_zones_loop(add_bare(b, name, cfg), config_list, i + 1)
               [] z_type = "finned" -> add_zones_loop(add_finned(b, name, cfg), config_list, i + 1)
               [] OTHER -> [b EXCEPT !.exc = "ValueError"]

\* HXBuilder.add_zones_from_config
add_zones_from_config(b, config_list) ==
    add_zones_loop([b EXCEPT !.exc = "none", !.configs = config_list,
                             !.n_before = Len(b.zones)],
                   config_list, 1)

\* The configuration records a caller may pass.
PipeCfg ==
    ("type" :> "pipe") @@ ("name" :> "Duct") @@ ("length" :> 5) @@ ("diameter" :> 2)

BareCfg ==
    ("type" :> "bare") @@ ("name" :> "Bank") @@ ("width" :> 10) @@ ("height" :> 10) @@
    ("tube_od" :> 4) @@ ("Rp" :> 3) @@ ("tubes_deep" :> 2)

FinnedCfg ==
    ("type" :> "finned") @@ ("name" :> "Fin") @@ ("width" :> 10) @@
    ("tube_od" :> 4) @@ ("tubes_deep" :> 2) @@ ("fin_pitch" :> 3) @@
    ("fin_thickness" :> 1)

\* cfg without key k
without(cfg, k) == [x \in (DOMAIN cfg) \ {k} |-> cfg[x]]

ConfigCatalogue ==
    LET full == {PipeCfg, BareCfg, FinnedCfg}
    IN  full
        \cup { without(BareCfg, k) : k \in {"type", "name", "width", "tubes_deep"} }
        \cup { without(PipeCfg, "length"), without(FinnedCfg, "fin_pitch") }
        \cup { [BareCfg EXCEPT !["type"] = t] : t \in {"coil", "Bare"} }
        \cup { BareCfg @@ ("S_T" :> 8) }

\* What build_geometry leaves in a zone: tube_centers, n_tubes, n_rows_avg.
layout(z) ==
    [tube_centers |-> z.tube_centers, n_tubes |-> z.n_tubes,
     n_rows_avg2 |-> z.n_rows_avg2]

(***************************************************************************)
(* The state machine                                                       *)
(***************************************************************************)
\* FluidStream.__init__ (profile = []) and HeatExchanger.__init__.
Init ==
    /\ hot_inlet \in HotInlets
    /\ cold_inlet \in ColdInlets
    /\ zones = <<>>
    /\ hot_profile = <<>>
    /\ cold_profile = <<>>
    /\ hot_out = Copy(hot_inlet)
    /\ cold_out = Copy(cold_inlet)
    /\ outcome = "none"
    /\ calls = <<>>
    /\ n_solves = 0
    /\ rows_before = 0
    /\ geom_before = <<>>
    /\ target_T_out = <<>>
    /\ Q_required = <<>>
    /\ call = NoCall
    /\ builder = HXBuilder("HX", "TariqModel", {})

\* hx.add_zone(zone)
AddZone ==
    /\ Len(zones) < MaxZones
    /\ \E zone \in ZoneCatalogue : zones' = add_zone(zones, zone)
    /\ geom_before' = <<>>
    /\ UNCHANGED <<hot_inlet, cold_inlet, hot_profile, cold_profile,
                   hot_out, cold_out, outcome, calls, n_solves, rows_before,
                   target_T_out, Q_required, call, builder>>

\* hx.build_geometry()
BuildGeometry ==
    /\ zones # <<>>
    /\ zones' = [k \in 1..Len(zones) |-> build_geometry(zones[k])]
    /\ geom_before' = [k \in 1..Len(zones) |-> layout(zones[k])]
    /\ UNCHANGED <<hot_inlet, cold_inlet, hot_profile, cold_profile,
                   hot_out, cold_out, outcome, calls, n_solves, rows_before,
                   target_T_out, Q_required, call, builder>>

\* hx.solve(): returns (hot_out, cold_out), or is left by the exception of a
\* zone's solve, which leaves hot_out and cold_out as they were.  The inlet
\* objects are the first elements of the two profiles.
Solve ==
    /\ n_solves < MaxSolves
    /\ LET st == solve_zones(1,
                    [zones |-> zones,
                     hot_profile |-> reset_profile(hot_profile, hot_inlet),
                     cold_profile |-> reset_profile(cold_profile, cold_inlet),
                     current_hot |-> hot_inlet, current_cold |-> cold_inlet,
                     calls |-> <<>>, exc |-> "none"])
       IN  /\ zones' = st.zones
           /\ hot_profile' = st.hot_profile
           /\ cold_profile' = st.cold_profile
           /\ calls' = st.calls
           /\ hot_out' = IF st.exc = "none" THEN st.current_hot ELSE hot_out
           /\ cold_out' = IF st.exc = "none" THEN st.current_cold ELSE cold_out
           /\ outcome' = IF st.exc = "none" THEN "returned" ELSE st.exc
           /\ hot_inlet' = st.hot_profile[1]
           /\ cold_inlet' = st.cold_profile[1]
    /\ n_solves' = n_solves + 1
    /\ rows_before' = Len(hot_profile)
    /\ geom_before' = <<>>
    /\ UNCHANGED <<target_T_out, Q_required, call, builder>>

Next == AddZone \/ BuildGeometry \/ Solve

Spec == Init /\ [][Next]_vars

\* Target temperatures handed to set_target_outlet_temp: one the gas can
\* be cooled to and one outside the range of the property provider.
TargetValues == {400, 0}

\* hx.set_target_outlet_temp(T_target)
SetTargetOutletTemp ==
    /\ \E T_target \in TargetValues :
          LET r == set_target_outlet_temp([hot_stream_inlet |-> hot_inlet, hot_out |-> hot_out], T_target)
          IN  /\ target_T_out' = <<r.target_T_out>>
              /\ Q_required' = <<r.Q_required>>
    /\ geom_before' = <<>>
    /\ UNCHANGED <<zones, hot_inlet, cold_inlet, hot_profile, cold_profile,
                   hot_out, cold_out, outcome, calls, n_solves, rows_before,
                   call, builder>>

TargetNext == SetTargetOutletTemp \/ AddZone \/ BuildGeometry \/ Solve

\* The assembly with a duty target, its gas entering at x = 0: the calls of
\* Spec and the target setter.
TargetInit == Init /\ hot_inlet.x = 0

TargetSpec == TargetInit /\ [][TargetNext]_vars

\* Gas states handed to the solve of a zone on its own.
ZoneHotStates ==
    { FluidState("gas", T, P, 20, "Nitrogen", 0) : T \in {600, 550, 500, 450}, P \in {100, 40, 0} }

\* One tube-bank or finned zone, constructed and not yet solved.
ZoneInit ==
    /\ hot_inlet \in HotInlets /\ hot_inlet.x = 0
    /\ cold_inlet \in ColdInlets
    /\ zones \in { <<z>> : z \in { c \in ZoneCatalogue : c.kind # "pipe" } }
    /\ hot_profile = <<>>
    /\ cold_profile = <<>>
    /\ hot_out = Copy(hot_inlet)
    /\ cold_out = Copy(cold_inlet)
    /\ outcome = "none"
    /\ calls = <<>>
    /\ n_solves = 0
    /\ rows_before = 0
    /\ geom_before = <<>>
    /\ target_T_out = <<>>
    /\ Q_required = <<>>
    /\ call = NoCall
    /\ builder = HXBuilder("HX", "TariqModel", {})

\* zone.solve(hot_state_in, cold_state_in) on the zone itself; calls holds the
\* record of this call alone.
ZoneSolve ==
    /\ \E hot_in \in ZoneHotStates, cold_in \in ColdInlets :
          LET r == zone_solve(zones[1], hot_in, cold_in)
          IN  /\ zones' = <<r.zone>>
              /\ calls' = <<call_record(1, zones[1], hot_in, cold_in, r)>>
              /\ outcome' = IF r.exc = "none" THEN "returned" ELSE r.exc
    /\ UNCHANGED <<hot_inlet, cold_inlet, hot_profile, cold_profile,
                   hot_out, cold_out, n_solves, rows_before, geom_before,
                   target_T_out, Q_required, call, builder>>

\* A zone solved again and again with the states its caller hands it.
ZoneSpec == ZoneInit /\ [][ZoneSolve]_vars

(***************************************************************************)
(* Calls on the plug-ins and on the row physics                            *)
(***************************************************************************)
\* Largest row count passed to a row correction.
MaxRows == 21

\* Largest conductance per unit of n_rows_avg fed to the resistance network.
MaxH == 100

\* The variables of the assembly.
assembly_vars ==
    <<zones, hot_inlet, cold_inlet, hot_profile, cold_profile,
      hot_out, cold_out, outcome, calls, n_solves, rows_before, geom_before,
      target_T_out, Q_required>>

Models ==
    {"GrimisonModel", "GrimisonModel(nearest)", "ModifiedGrimisonModel",
     "ZhukauskasModel", "TariqModel"}

ReValues == {-5, 0, 1, 99, 100, 499, 500, 999, 1000, 1001, 2000, 40000, 40001, 200000}

\* <<S_T, S_L, D>>
PitchValues ==
    { <<124, 100, 100>>, <<125, 100, 100>>, <<200, 200, 100>>, <<360, 300, 100>>,
      <<361, 100, 100>>, <<200, 59, 100>>, <<200, 60, 100>>, <<200, 301, 100>>,
      <<125, 60, 100>>, <<130, 70, 100>>, <<400, 400, 200>> }

\* Row counts: Python ints and floats.
NRowsValues ==
    { PyInt(n) : n \in -1..MaxRows } \cup { PyFloat(h) : h \in {-1, 0, 1, 2, 5, 18, 19, 40} }

NRowsArgs == { PyInt(0), PyInt(1), PyInt(3), PyInt(10), PyFloat(1), PyFloat(5), PyFloat(6) }

\* The gas-side inputs of a row.
GasInputs ==
    { [m_dot |-> m, mu |-> 1, A_front |-> 100, S_T |-> p[1], S_L |-> p[2], D |-> p[3],
       eps_por |-> eps_por(p[3], p[1], p[2]),
       fin_pitch |-> 3, fin_thickness |-> 1, n_cols |-> 2] :
         m \in {4000, 40000}, p \in { <<16, 6, 5>>, <<10, 10, 4>> } }

\* Knudsen numbers, in millionths: continuum, slip flow, transition.
KnValues == {7, 20000, 500000}

\* model_params of a row: the keyword arguments every model is called with.
model_params(eps, S_T, S_L, D, N_rows, Kn) ==
    [eps_por |-> eps, Kn |-> Kn, D |-> D, S_T |-> S_T, S_L |-> S_L,
     N_rows |-> N_rows, Pr_wall |-> 70]

\* The calls a caller may make, before they are made.
NuRequests ==
    { [op |-> "calculate_Nu", model |-> model, Re |-> Re, Pr |-> 70,
       kw |-> model_params(eps_por(p[3], p[1], p[2]), p[1], p[2], p[3], N, Kn),
       done |-> FALSE] :
         model \in Models, Re \in ReValues, p \in PitchValues, N \in NRowsArgs,
         Kn \in KnValues }

\* Calls over the pitch ratios of the table range, in steps of 0.05
\* diameters, at both ends of the Reynolds range.
GridRequests ==
    { [op |-> "calculate_Nu", model |-> model, Re |-> Re, Pr |-> 70,
       kw |-> model_params(eps_por(100, a_min + 5 * i, b_min + 5 * j),
                            a_min + 5 * i, b_min + 5 * j, 100, PyInt(3), 7),
       done |-> FALSE] :
         model \in {"GrimisonModel", "GrimisonModel(nearest)", "ModifiedGrimisonModel"},
         Re \in {Re_min, Re_max},
         i \in 0..((a_max - a_min) \div 5),
         j \in 0..((b_max - b_min) \div 5) }

C2Requests ==
    { [op |-> "get_c2", model |-> model, N_rows |-> N, Re |-> Re, done |-> FALSE] :
         model \in {"GrimisonModel", "ZhukauskasModel"}, N \in NRowsValues,
         Re \in {500, 1000, 1001} }

GasRequests ==
    { [op |-> "gas_side", kind |-> kind, model |-> model, g |-> g, done |-> FALSE] :
         kind \in {"bare", "finned"}, model \in Models, g \in GasInputs }

NetworkRequests ==
    { [op |-> "network",
       zone |-> [build_geometry(z0) EXCEPT !.phys.h_t = h_t, !.phys.h_c = h_c,
                     !.phys.g_wall = g_wall,
                     !.phys.hA_fin = IF z0.kind = "finned" THEN hA_fin ELSE 0],
       done |-> FALSE] :
         z0 \in {z \in ZoneCatalogue : z.name \in {"Bank", "Fin"}},
         h_t \in {1, 4, 60, MaxH}, h_c \in {1, 4, 60, MaxH}, g_wall \in {1, 4, 60, MaxH},
         hA_fin \in {1, 40} }

\* An assembly under construction and one call about to be made.
PluginInit ==
    /\ hot_inlet \in HotInlets
    /\ cold_inlet \in ColdInlets
    /\ zones = <<>>
    /\ hot_profile = <<>>
    /\ cold_profile = <<>>
    /\ hot_out = Copy(hot_inlet)
    /\ cold_out = Copy(cold_inlet)
    /\ outcome = "none"
    /\ calls = <<>>
    /\ n_solves = 0
    /\ rows_before = 0
    /\ geom_before = <<>>
    /\ target_T_out = <<>>
    /\ Q_required = <<>>
    /\ builder = HXBuilder("HX", "TariqModel", {})
    /\ call \in NuRequests \cup GridRequests \cup C2Requests \cup GasRequests
                  \cup NetworkRequests

\* model.calculate_Nu(Re, Pr, S_T=, S_L=, D=, N_rows=)
CalculateNu ==
    /\ call.op = "calculate_Nu" /\ ~call.done
    /\ call' = [done |-> TRUE,
                result |-> calculate_Nu(call.model, call.Re, call.Pr, call.kw)] @@ call
    /\ UNCHANGED <<assembly_vars, builder>>

\* GrimisonModel._get_c2_factor(N_rows) and ZhukauskasModel._get_c2(N_rows, Re)
GetC2 ==
    /\ call.op = "get_c2" /\ ~call.done
    /\ call' = [done |-> TRUE,
                result |-> IF call.model = "GrimisonModel" THEN get_c2_factor(call.N_rows)
                           ELSE NuResult("none", get_c2(call.N_rows, call.Re), <<>>)] @@ call
    /\ UNCHANGED <<assembly_vars, builder>>

\* GAS SIDE PHYSICS of one row: the Reynolds number, then the model's Nusselt
\* number on that Reynolds number.
GasSidePhysics ==
    /\ call.op = "gas_side" /\ ~call.done
    /\ LET g == call.g
           Re_t == gas_Re(call.kind, call.model, g)
           kw == model_params(g.eps_por, g.S_T, g.S_L, g.D, PyInt(g.n_cols), 7)
       IN  call' = [done |-> TRUE, Re_t |-> Re_t, Re |-> Re_t, Pr |-> 70, kw |-> kw,
                    result |-> calculate_Nu(call.model, Re_t, 70, kw)] @@ call
    /\ UNCHANGED <<assembly_vars, builder>>

\* SOLVE of one row: the three resistances in series.
ResistanceNetwork ==
    /\ call.op = "network" /\ ~call.done
    /\ call' = [done |-> TRUE, UA |-> UA_total(call.zone)] @@ call
    /\ UNCHANGED <<assembly_vars, builder>>

PluginNext == CalculateNu \/ GetC2 \/ GasSidePhysics \/ ResistanceNetwork

PluginSpec == PluginInit /\ [][PluginNext]_vars

(***************************************************************************)
(* Calls on the builder                                                    *)
(***************************************************************************)
\* The configuration lists passed in one call: no, one or two records.
ConfigLists ==
    {<<>>} \cup { <<c>> : c \in ConfigCatalogue }
           \cup { <<c, d>> : c \in ConfigCatalogue, d \in ConfigCatalogue }

\* HXBuilder(name, physics_model) or HXBuilder(name, physics_model, pressure_model=...)
NewBuilder ==
    /\ \E model \in {"TariqModel", "GrimisonModel"}, kwargs \in {{}, {"pressure_model"}} :
          builder' = HXBuilder("HX", model, kwargs)
    /\ UNCHANGED <<assembly_vars, call>>

\* builder.add_zones_from_config(config_list)
AddZonesFromConfig ==
    /\ builder.model # "none"
    /\ \E config_list \in ConfigLists :
          /\ Len(builder.zones) + Len(config_list) <= MaxZones
          /\ builder' = add_zones_from_config(builder, config_list)
    /\ UNCHANGED <<assembly_vars, call>>

BuilderNext == NewBuilder \/ AddZonesFromConfig

BuilderSpec == Init /\ [][BuilderNext]_vars

(***************************************************************************)
(* Properties                                                              *)
(***************************************************************************)
IsBank(c) == c.kind \in {"bare", "finned"}

\* The state with which row i (0-based) of call c was entered: the input state
\* for row 0, else the state appended by row i-1.
EnteringHot(c, i) == IF i = 0 THEN c.hot_in ELSE c.h_prof[i]
EnteringCold(c, i) == IF i = 0 THEN c.cold_in ELSE c.c_prof[i]

\* The row profiles of the calls k .. Len(cs), concatenated in call order.
RECURSIVE HotRows(_, _)
HotRows(cs, k) == IF k > Len(cs) THEN <<>> ELSE cs[k].h_prof \o HotRows(cs, k + 1)

RECURSIVE ColdRows(_, _)
ColdRows(cs, k) == IF k > Len(cs) THEN <<>> ELSE cs[k].c_prof \o ColdRows(cs, k + 1)

\* C1: in solve(), the first zone is handed the two inlet states, and every
\* later zone is handed exactly the outlet states the zone before it returned
\* (same T, P, m_dot, fluid and x).
C1_Handoff ==
    \A k \in 1..Len(calls) :
        /\ calls[k].hot_in  = IF k = 1 THEN hot_inlet  ELSE calls[k - 1].hot_out
        /\ calls[k].cold_in = IF k = 1 THEN cold_inlet ELSE calls[k - 1].cold_out

\* A solve in which the first zone changed both streams and a second zone was
\* solved after it.
C1_Witness ==
    /\ Len(calls) = 2
    /\ calls[1].exc = "none" /\ calls[2].exc = "none"
    /\ calls[1].hot_out # hot_inlet /\ calls[1].cold_out.T # cold_inlet.T
    /\ Len(calls[2].h_prof) > 0

\* C2: after every solve(), however many solves came before, each stream's
\* profile is the stream's inlet state followed by the row states the zones
\* returned in this call, in zone order; its length is 1 + the rows solved in
\* this call.
C2_ProfileRebuilt ==
    n_solves > 0 =>
        /\ hot_profile = <<hot_inlet>> \o HotRows(calls, 1)
        /\ cold_profile = <<cold_inlet>> \o ColdRows(calls, 1)
        /\ Len(hot_profile) = 1 + Len(HotRows(calls, 1))
        /\ \A k \in 1..Len(calls) : calls[k].k = k

\* A second solve that began with rows of the first one in the profile and
\* solved rows itself.
C2_Witness ==
    /\ n_solves = 2
    /\ rows_before > 1
    /\ outcome = "returned"
    /\ Len(hot_profile) > rows_before

\* The gas pressure with which the row that ended call c early was entered.
FailedRowGasP(c) == EnteringHot(c, c.row).P

\* C3: when the marched gas pressure falls to zero or below and the property
\* lookup therefore fails at a row of a zone, solve() does not return normally
\* with a shortened profile: the caller gets a failure (naming zone and row).
C3_FailureSurfaced ==
    \A k \in 1..Len(calls) :
        (/\ IsBank(calls[k]) /\ calls[k].exc = "none" /\ calls[k].cause = "gas"
         /\ FailedRowGasP(calls[k]) <= 0)
            => outcome # "returned"

\* C4: a gas lookup that raises at row i of a tube-bank or finned zone ends the
\* row loop at once: the call returns normally with exactly the i rows solved
\* before in both profiles and, for i >= 1, the state after row i-1 as outlet;
\* a returned call with fewer than n_cols rows stopped for that reason alone.
C4_GasFailureTruncates ==
    \A k \in 1..Len(calls) :
        LET c == calls[k] IN
        IsBank(c) =>
            /\ c.cause = "gas" =>
                /\ c.exc = "none"
                /\ c.row \in 0..(c.n_cols - 1)
                /\ Len(c.h_prof) = c.row /\ Len(c.c_prof) = c.row
                /\ ~PropsSI_ok(EnteringHot(c, c.row).T, EnteringHot(c, c.row).P,
                               c.hot_in.fluid)
                /\ \A i \in 0..(c.row - 1) :
                       PropsSI_ok(EnteringHot(c, i).T, EnteringHot(c, i).P, c.hot_in.fluid)
                /\ c.row >= 1 => /\ c.hot_out = c.h_prof[c.row]
                                 /\ c.cold_out = c.c_prof[c.row]
            /\ (c.exc = "none" /\ Len(c.h_prof) < c.n_cols) => c.cause = "gas"

\* A bare zone whose gas lookup failed after two solved rows, followed by a
\* finned zone whose gas lookup failed at its first row.
C4_Witness ==
    /\ Len(calls) = 2
    /\ calls[1].kind = "bare" /\ calls[1].cause = "gas" /\ calls[1].row = 2
    /\ calls[2].kind = "finned" /\ calls[2].cause = "gas" /\ calls[2].row = 0

\* C5: a ValueError of the coolant lookup at row i of a tube-bank or finned zone
\* ends the row loop like a gas failure: the call returns the rows solved so
\* far and raises nothing.
C5_CoolantFailureTruncates ==
    \A k \in 1..Len(calls) :
        (IsBank(calls[k]) /\ calls[k].cause = "coolant")
            => calls[k].exc = "none" /\ Len(calls[k].h_prof) = calls[k].row

\* C6: a tube-bank or finned zone that solves zero rows (a failure at row 0, a
\* row count of 0, or no tube fitting the frontal height) returns the unmodified
\* input states and empty row profiles and raises nothing.
C6_ZeroRowsReturnInput ==
    \A k \in 1..Len(calls) :
        LET c == calls[k] IN
        (IsBank(c) /\ (c.n_cols = 0 \/ c.zone.n_tubes = 0
                        \/ (c.cause = "gas" /\ c.row = 0)))
            => /\ c.exc = "none"
               /\ c.hot_out = c.hot_in /\ c.cold_out = c.cold_in
               /\ c.h_prof = <<>> /\ c.c_prof = <<>>

\* Capacity rates mdot * cp of the two streams of call c.
C_gas(c) == c.hot_in.m_dot * PropsSI_C(c.hot_in.fluid)
C_cool(c) == c.cold_in.m_dot * PropsSI_C(c.cold_in.fluid)

\* UA * (1/C_gas + 1/C_cool) <= 1: one explicit row step cannot carry the gas
\* temperature past the coolant temperature.
NoOvershoot(c) ==
    /\ UA_total(c.zone) > 0
    /\ UA_total(c.zone) * (C_gas(c) + C_cool(c)) <= C_gas(c) * C_cool(c)

Physical(s) == s.T > 0 /\ s.P > 0

\* C8: every state a zone solve appended to a row profile or returned as an
\* outlet, and so every state of a stream profile after solve(), has T > 0 and
\* P > 0.
C8_StatesPhysical ==
    /\ \A i \in 1..Len(hot_profile) : Physical(hot_profile[i])
    /\ \A i \in 1..Len(cold_profile) : Physical(cold_profile[i])
    /\ Physical(hot_out) /\ Physical(cold_out)

\* The zones lie end to end from 0: the first has origin_x = 0, every later one
\* starts at the origin_x + n_cols * S_L of the zone before it.
OriginsChained ==
    /\ zones # <<>> => zones[1].origin_x = 0
    /\ \A k \in 2..Len(zones) :
           zones[k].origin_x
               = zones[k - 1].origin_x + zones[k - 1].n_cols * zones[k - 1].S_L

\* The last solve returned and every zone solved all of its rows.
AllRowsSolved ==
    /\ outcome = "returned"
    /\ \A k \in 1..Len(calls) : Len(calls[k].h_prof) = calls[k].n_cols

\* Each solved zone's outlet states lie at the origin_x of the zone after it.
OutletsAtNextOrigin ==
    \A k \in 1..Len(calls) :
        k + 1 <= Len(zones) =>
            /\ calls[k].hot_out.x = zones[k + 1].origin_x
            /\ calls[k].cold_out.x = zones[k + 1].origin_x

C10_PipeFrame ==
    \A k \in 1..Len(calls) :
        LET c == calls[k] IN
        (c.kind = "pipe" /\ c.exc = "none") =>
            /\ c.hot_out.T = c.hot_in.T
            /\ c.hot_out.P = c.hot_in.P - c.zone.phys.f_LD * c.zone.phys.q_dyn
            /\ c.hot_out.m_dot = c.hot_in.m_dot /\ c.hot_out.fluid = c.hot_in.fluid
            /\ c.cold_out.T = c.cold_in.T /\ c.cold_out.P = c.cold_in.P
            /\ c.cold_out.m_dot = c.cold_in.m_dot
            /\ c.zone.results.set /\ c.zone.results.Q_total = 0
            /\ c.zone.results.dP_gas = c.hot_in.P - c.hot_out.P
            /\ c.h_prof = <<c.hot_out>> /\ c.c_prof = <<c.cold_out>>

\* A pipe zone solved behind a zone that cooled the gas: its pressure fell.
C10_Witness ==
    /\ Len(calls) = 2
    /\ calls[2].kind = "pipe" /\ calls[2].exc = "none"
    /\ calls[2].hot_in.T < hot_inlet.T
    /\ calls[2].hot_out.P < calls[2].hot_in.P

\* C11: a zone whose layout was already built when build_geometry() was called
\* again, with unchanged geometry parameters, holds the identical tube_centers,
\* n_tubes and n_rows_avg afterwards (nothing appended, nothing reordered).
C11_BuildIdempotent ==
    \A k \in 1..Len(geom_before) :
        geom_before[k].tube_centers # <<>> => layout(zones[k]) = geom_before[k]

C11_Witness ==
    \E k \in 1..Len(geom_before) :
        /\ Len(geom_before[k].tube_centers) >= 2
        /\ zones[k].stagger
        /\ layout(zones[k]) = geom_before[k]

(***************************************************************************)
(* Properties of the model plug-ins (PluginSpec)                           *)
(***************************************************************************)
\* A completed calculate_Nu call on the named model.
NuCallOn(model) == call.op = "calculate_Nu" /\ call.done /\ call.model = model

\* The inputs outside the validity bounds of the table correlation: Reynolds
\* number, pitch ratios, tube overlap, row count.
OutsideGrimisonBounds(Re, kw) ==
    \/ Re < 500 \/ Re > 40000
    \/ 100 * kw.S_T < 125 * kw.D \/ 100 * kw.S_T > 360 * kw.D
    \/ 100 * kw.S_L < 60 * kw.D \/ 100 * kw.S_L > 300 * kw.D
    \/ kw.S_T * kw.S_T + 4 * kw.S_L * kw.S_L < 4 * kw.D * kw.D
    \/ kw.N_rows.halves % 2 # 0
    \/ kw.N_rows.halves < 2

\* C12: GrimisonModel.calculate_Nu raises ValueError and returns nothing when
\* Re < 500 or Re > 40000, when S_T/D is outside [1.25, 3.60] or S_L/D outside
\* [0.60, 3.00], when (0.5*S_T/D)^2 + (S_L/D)^2 < 1, and when N_rows is not a
\* whole number or is below 1; inside all bounds it returns a value.
C12_GrimisonValidates ==
    NuCallOn("GrimisonModel") =>
        IF OutsideGrimisonBounds(call.Re, call.kw)
        THEN call.result.exc = "ValueError" /\ call.result.evals = <<>>
        ELSE call.result.exc = "none"

C12_Witness ==
    /\ NuCallOn("GrimisonModel")
    /\ call.Re = 40001
    /\ call.kw.S_T = 200 /\ call.kw.S_L = 200 /\ call.kw.D = 100
    /\ call.kw.N_rows = PyInt(3)
    /\ call.result.exc = "ValueError"

\* C13: ModifiedGrimisonModel.calculate_Nu rejects exactly the inputs that
\* GrimisonModel.calculate_Nu rejects.
C13_SameRejections ==
    NuCallOn("ModifiedGrimisonModel") =>
        ( (call.result.exc # "none")
            <=> (Grimison_calculate_Nu("GrimisonModel", call.Re, call.Pr, call.kw).exc # "none") )

\* C14: for every model, calculate_Nu called with Re <= 0 evaluates no
\* logarithm and no power law on a zero or negative Reynolds number: the call
\* is rejected, or every such evaluation has a positive operand.
C14_ReFloored ==
    (call.op = "calculate_Nu" /\ call.done /\ call.Re <= 0) =>
        \/ call.result.exc # "none"
        \/ \A k \in 1..Len(call.result.evals) : call.result.evals[k].arg100 > 0

\* A completed row-correction call on the named model with a whole row count >= 1.
C2CallOn(model) ==
    /\ call.op = "get_c2" /\ call.done /\ call.model = model
    /\ is_integer(call.N_rows) /\ int(call.N_rows) >= 1

\* C15: GrimisonModel's C2 is non-decreasing in the whole row count N_rows >= 1,
\* never exceeds 1.0, and is exactly 1.0 for N_rows > 9.
C15_GrimisonC2Monotone ==
    C2CallOn("GrimisonModel") =>
        /\ call.result.exc = "none"
        /\ call.result.C2 <= 100
        /\ int(call.N_rows) > 9 => call.result.C2 = 100
        /\ \A n \in 1..int(call.N_rows) : get_c2_factor(PyInt(n)).C2 <= call.result.C2

C15_Witness ==
    /\ C2CallOn("GrimisonModel")
    /\ int(call.N_rows) = 10
    /\ call.result.C2 = 100

\* C16: ZhukauskasModel's C2, at a fixed Reynolds number, is non-decreasing in
\* the whole row count N_rows >= 1, row counts absent from the sparse table
\* included, and is exactly 1.0 for N_rows >= 20.
C16_ZhukauskasC2Monotone ==
    C2CallOn("ZhukauskasModel") =>
        /\ int(call.N_rows) >= 20 => call.result.C2 = 100
        /\ \A n \in 1..int(call.N_rows) : get_c2(PyInt(n), call.Re) <= call.result.C2

(***************************************************************************)
(* Properties of the builder (BuilderSpec)                                 *)
(***************************************************************************)
\* The keys a record of the given type must hold.
RequiredKeys(type) ==
    CASE type = "pipe"   -> {"type", "name", "length", "diameter"}
      [] type = "bare"   -> {"type", "name", "width", "tube_od", "tubes_deep"}
      [] type = "finned" -> {"type", "name", "width", "tube_od", "tubes_deep",
                             "fin_pitch", "fin_thickness"}
      [] OTHER -> {}

\* A record with no type, with an unknown type, or lacking a required key.
BadRecord(cfg) ==
    \/ "type" \notin DOMAIN cfg
    \/ lower(cfg["type"]) \notin {"pipe", "bare", "finned"}
    \/ ~ (RequiredKeys(lower(cfg["type"])) \subseteq DOMAIN cfg)

\* C17: add_zones_from_config raises for every record of unknown type and for
\* every record lacking a required key, a record with no type included, and
\* builds no zone from such a record.
C17_BuilderRejects ==
    \A i \in 1..Len(builder.configs) :
        BadRecord(builder.configs[i]) =>
            /\ builder.exc # "none"
            /\ Len(builder.zones) - builder.n_before < i

\* C18: every zone built by HXBuilder carries an injected Pressure-Drop Model
\* besides the injected Heat-Transfer Model.
C18_PressureModelInjected ==
    \A k \in 1..Len(builder.zones) : "pressure_model" \in DOMAIN builder.zones[k]

(***************************************************************************)
(* Properties of the row physics (PluginSpec)                              *)
(***************************************************************************)
\* The frontal area and mass flow of the row with the fin blockage
\* 1 - fin_thickness/fin_pitch cleared of its denominator.
Blocked(c) ==
    IF c.kind = "finned"
    THEN [A |-> c.g.A_front * (c.g.fin_pitch - c.g.fin_thickness),
          m |-> c.g.m_dot * c.g.fin_pitch]
    ELSE [A |-> c.g.A_front, m |-> c.g.m_dot]

\* The Reynolds number from the mass flow over the minimum (gap) flow area.
GapRe(c) ==
    Quot(Blocked(c).m * c.g.S_T * c.g.D, Blocked(c).A * (c.g.S_T - c.g.D) * c.g.mu)

\* The model's own Reynolds number.
OwnRe(c) ==
    calculate_Re_max(Blocked(c).m, Blocked(c).A, c.g.S_T, c.g.S_L, c.g.D, c.g.mu)

\* C19: at a row of a tube-bank or finned zone, the Reynolds number passed to
\* the Heat-Transfer Model is the model's calculate_Re_max result when the
\* model has that method, and otherwise the Reynolds number over the gap area.
C19_ReynoldsSelection ==
    (call.op = "gas_side" /\ call.done) =>
        /\ call.Re = call.Re_t
        /\ call.Re_t = IF class_name(call.model) \in {"GrimisonModel", "ModifiedGrimisonModel"}
                       THEN OwnRe(call) ELSE GapRe(call)

C19_Witness ==
    /\ call.op = "gas_side" /\ call.done
    /\ call.model = "ModifiedGrimisonModel"
    /\ call.kind = "finned"
    /\ OwnRe(call) # GapRe(call)
    /\ call.Re_t = OwnRe(call)

\* C20: the conductance UA = 1/(R_gas + R_cool + R_wall) of a row is at most
\* min(h_gas*A_gas, h_cool*A_cool), for positive film coefficients, areas and
\* wall resistance (conductances doubled, as n_rows_avg is).
C20_UABelowMin ==
    (call.op = "network" /\ call.done) =>
        LET z == call.zone
            hA_gas2 == IF z.kind = "finned"
                       THEN z.phys.h_t * z.n_rows_avg2 + 2 * z.phys.hA_fin
                       ELSE z.phys.h_t * z.n_rows_avg2
            hA_cool2 == z.phys.h_c * z.n_rows_avg2
        IN  2 * call.UA <= hA_gas2 /\ 2 * call.UA <= hA_cool2

C20_Witness ==
    /\ call.op = "network" /\ call.done
    /\ call.zone.kind = "finned"
    /\ call.zone.phys.h_t = MaxH /\ call.zone.phys.h_c = 4
    /\ call.zone.phys.g_wall = MaxH
    /\ call.UA > 0

\* The turbulent band of the Reynolds number.
TurbulentBand(Re) == 1000 <= Re /\ Re <= 200000

\* C21: for every model, with Pr, geometry and row count held fixed, Re1 <= Re2
\* with both in the turbulent band implies calculate_Nu(Re1) <= calculate_Nu(Re2)
\* (for ZhukauskasModel also Re1 = 1000, Re2 = 1001 below 20 rows).
C21_NuMonotoneInRe ==
    ( /\ call.op = "calculate_Nu" /\ call.done /\ call.result.exc = "none"
      /\ TurbulentBand(call.Re)
      /\ check_geometry(call.kw.S_T, call.kw.S_L, call.kw.D) = "none" ) =>
        \A Re2 \in ReValues :
            (call.Re <= Re2 /\ TurbulentBand(Re2)) =>
                LET r2 == calculate_Nu(call.model, Re2, call.Pr, call.kw)
                IN  r2.exc = "none" => Leq(call.result.Nu, r2.Nu)

\* A real value a float can hold.
Finite(x) == x.sign \in {"pos", "zero", "neg"} /\ x.ln < 709000

\* C22: for every (Re, S_T/D, S_L/D) inside the validity window (Re in
\* 500..40000, pitch ratios in range, no overlap, a whole row count >= 1)
\* calculate_Nu returns a finite value strictly greater than 0, with either
\* coefficient method, and the coefficient C1 is positive.
C22_NuPositive ==
    ( /\ call.op = "calculate_Nu" /\ call.done
      /\ ~OutsideGrimisonBounds(call.Re, call.kw) ) =>
        /\ call.result.exc = "none"
        /\ Finite(call.result.Nu)
        /\ call.result.Nu.sign = "pos"
        /\ "C1" \in DOMAIN call.result => call.result.C1 > 0

C22_Witness ==
    /\ NuCallOn("GrimisonModel")
    /\ call.Re = 500
    /\ call.kw.S_T = 270 /\ call.kw.S_L = 60 /\ call.kw.D = 100
    /\ call.result.exc = "none"
    /\ call.result.Nu.sign = "pos"
    /\ call.result.C1 < 200000

\* C30: in ZhukauskasModel.calculate_Nu the row-correction table read by
\* _get_c2 is the high-Reynolds one exactly when _get_c1_m returns the
\* coefficients of a Re >= 1000 band, Re = 1000 included.
C30_BandsAgree ==
    ( /\ NuCallOn("ZhukauskasModel") /\ call.result.exc = "none"
      /\ call.result.table # "none" ) =>
        ( (call.result.table = "high") <=> (call.result.m \in {60, 84}) )

\* The position in the gas profile of the state zone call j was handed:
\* the inlet and the rows of the calls before it.
RECURSIVE HandedAt(_, _)
HandedAt(log, j) == IF j = 1 THEN 1 ELSE HandedAt(log, j - 1) + Len(log[j - 1].h_prof)

\* C23: no FluidState changes after it is constructed.  Every step leaves the
\* two inlet states as they were; after a solve, each state a zone was handed
\* and each row state a zone returned stands in the profiles with the T, P,
\* m_dot, fluid and x it had then, and the profiles hold the inlet and one
\* state per solved row.
C23_StatesNotMutated ==
    [][ /\ hot_inlet' = hot_inlet
        /\ cold_inlet' = cold_inlet
        /\ n_solves' # n_solves =>
              /\ hot_profile'[1] = hot_inlet /\ cold_profile'[1] = cold_inlet
              /\ \A j \in 1..Len(calls') :
                    LET c == calls'[j]
                        at == HandedAt(calls', j)
                    IN  /\ at <= Len(hot_profile')
                        /\ hot_profile'[at] = c.hot_in
                        /\ cold_profile'[at] = c.cold_in
                        /\ \A i \in 1..Len(c.h_prof) :
                              /\ hot_profile'[at + i] = c.h_prof[i]
                              /\ cold_profile'[at + i] = c.c_prof[i] ]_vars

C23_Witness ==
    /\ n_solves > 0 /\ outcome = "returned"
    /\ Len(calls) = 2
    /\ calls[1].h_prof # <<>> /\ calls[2].h_prof # <<>>
    /\ hot_profile[1] = hot_inlet
    /\ hot_profile[HandedAt(calls, 2)] = calls[2].hot_in


\* C24: Q_required is fixed by set_target_outlet_temp from the gas inlet and
\* the target alone.  A step of add_zone, build_geometry or solve leaves
\* target_T_out and Q_required as they were, and setting the same target
\* again, before or after any solve, stores the same Q_required.
C24_TargetFixed ==
    [][ /\ (zones' # zones \/ n_solves' # n_solves \/ geom_before' # <<>>)
              => UNCHANGED <<target_T_out, Q_required>>
        /\ (target_T_out # <<>> /\ target_T_out' = target_T_out)
              => Q_required' = Q_required ]_vars

\* A target the gas can be cooled to is in place after a solve that returned
\* with the gas leaving colder than it entered.
C24_Witness ==
    /\ target_T_out = <<400>>
    /\ Q_required # <<>> /\ Q_required[1] > 0
    /\ outcome = "returned"
    /\ hot_out.T < hot_inlet.T


\* C25: every solve() ends, having invoked each zone's solve exactly once in
\* the order the zones were added, each call solving at most n_cols rows; a
\* zone that cut its rows short on a property failure does not stop the run:
\* every later zone is solved, entered with the states the zone before it
\* returned.
C25_EveryZoneSolvedOnce ==
    [][ n_solves' # n_solves =>
          /\ outcome' # "none"
          /\ Len(calls') = Len(zones')
          /\ \A k \in 1..Len(calls') :
                 /\ calls'[k].k = k
                 /\ calls'[k].zone.name = zones'[k].name
                 /\ IsBank(calls'[k]) => Len(calls'[k].h_prof) <= calls'[k].n_cols
                 /\ k > 1 => /\ calls'[k].hot_in = calls'[k - 1].hot_out
                             /\ calls'[k].cold_in = calls'[k - 1].cold_out ]_vars


\* The coolant state with which row i (from 0) of call c was entered.
EnteringColdRow(c, i) == IF i = 0 THEN c.cold_in ELSE c.c_prof[i]

\* Sum of f[i] over i in 0..(n - 1).
RECURSIVE SumTo(_, _)
SumTo(f, n) == IF n = 0 THEN 0 ELSE f[n - 1] + SumTo(f, n - 1)

\* q is the arithmetic mean of f[0..n-1] at the resolution.
IsMean(q, f, n) == q * n <= SumTo(f, n) /\ SumTo(f, n) < (q + 1) * n

\* Duty, gas and coolant Reynolds number of row i of call c, from the states
\* the row was entered with.
RowQ(c) ==
    [i \in 0..(c.n_cols - 1) |->
        UA_total(c.zone) * (EnteringHot(c, i).T - EnteringColdRow(c, i).T)]
RowReGas(c) ==
    [i \in 0..(c.n_cols - 1) |-> Re_row(c.zone.phys.GD, EnteringHot(c, i).T)]
RowReCool(c) ==
    [i \in 0..(c.n_cols - 1) |-> Re_row(c.zone.phys.GD_c, EnteringColdRow(c, i).T)]

\* results of zone c.zone aggregate the n rows that call c solved.
AggregatesRows(c, n) ==
    LET res == c.zone.results IN
    /\ res.Q_total = SumTo(RowQ(c), n)
    /\ res.dP_gas = c.hot_in.P - c.hot_out.P
    /\ res.dP_cool = c.cold_in.P - c.cold_out.P
    /\ n > 0 => /\ res.h_gas_avg = h_gas_row(c.zone)
                /\ res.h_cool_avg = c.zone.phys.h_c
                /\ IsMean(res.Re_gas_avg, RowReGas(c), n)
                /\ IsMean(res.Re_cool_avg, RowReCool(c), n)
                /\ res.T_gas_out = c.hot_out.T
                /\ res.T_cool_out = c.cold_out.T

\* C26: after any returned solve of a tube-bank or finned zone, zone.results
\* aggregates exactly the rows solved in that call: sums for duty and pressure
\* drops, means for film coefficients and Reynolds numbers, T_gas_out and
\* T_cool_out the returned outlet temperatures; also after a call that solved
\* fewer than n_cols rows or none, where nothing of an earlier solve remains.
C26_ResultsOfThisCall ==
    \A k \in 1..Len(calls) :
        LET c == calls[k] IN
        (IsBank(c) /\ c.exc = "none") => AggregatesRows(c, Len(c.h_prof))


\* C27: after every solve() that returns, hot_out is the last element of
\* hot_stream.profile, cold_out the last element of cold_stream.profile, and
\* the two profiles have the same length, whatever the zone list (an empty one
\* and zones that solved no row included).
C27_OutletsEndProfiles ==
    outcome = "returned" =>
        /\ Len(hot_profile) = Len(cold_profile)
        /\ Len(hot_profile) >= 1
        /\ hot_out = hot_profile[Len(hot_profile)]
        /\ cold_out = cold_profile[Len(cold_profile)]

\* A solve returned after a zone that solved rows and a zone that solved none.
C27_Witness ==
    /\ outcome = "returned"
    /\ Len(calls) = 2
    /\ Len(calls[1].h_prof) >= 2
    /\ IsBank(calls[2]) /\ calls[2].h_prof = <<>>
    /\ hot_out = calls[1].hot_out


\* C28: for a bare zone the builder made from a config with an explicit S_T or
\* S_L, the quantities the solve derives follow the overridden pitches: the
\* eps_por passed to the model is 1 - (pi/4)*D^2/(S_T*S_L) of the zone's
\* current pitches and the pitch ratio given to the Euler-number correlation
\* is the current S_T/D.
C28_DerivedFromOverrides ==
    \A i \in 1..(Len(builder.zones) - builder.n_before) :
        LET cfg == builder.configs[i]
            z   == builder.zones[builder.n_before + i]
        IN  (z.kind = "bare" /\ {"S_T", "S_L"} \cap DOMAIN cfg # {}) =>
                /\ zone_model_params(z).eps_por = eps_por(z.tube_dia, z.S_T, z.S_L)
                /\ Eu_pitch_ratio2(z) * z.tube_dia = 2 * z.S_T


\* C29: when add_zones_from_config raises for some record of the list,
\* builder.zones is left as it was before the call: no zone built from an
\* earlier record of the same list is kept.
C29_AllOrNothing ==
    builder.exc # "none" => Len(builder.zones) = builder.n_before

====
